---- MODULE Spec2Model ----
(***************************************************************************)
(* Verification model of the WebEditor1 canvas stage, colour helpers,      *)
(* editor page and welcome-page mini editor.                               *)
(*                                                                         *)
(* Conventions.                                                            *)
(*  - A JavaScript string is a sequence of one-character strings, so that  *)
(*    replace / toLowerCase / parseInt act on characters.                  *)
(*  - An optional value (undefined / null in the source) is a sequence of  *)
(*    length 0 (absent) or 1 (present).                                    *)
(*  - Fractions are kept exactly, in hundredths: a gradient offset, an     *)
(*    origin component, an aspect ratio and an opacity are stored times    *)
(*    100, and gradient coordinates are stored times 100 as well.          *)
(*  - Math.cos / Math.sin are taken on the quarter turns only, where they  *)
(*    are integers.                                                        *)
(*  - ev records the handler that ran last, so that a handler that         *)
(*    returns early is still a step of the behaviour; the handlers of the  *)
(*    welcome page leave it alone.                                         *)
(*  - An asynchronous continuation (an image load, the raster of a crop)   *)
(*    is an entry of loads until its callback runs as a step of its own.   *)
(*                                                                         *)
(* The specifications share the variables: Spec (pointer handlers, tool    *)
(* and text-mode props, image loads), SpecText (text gestures under each   *)
(* textMode), SpecImages (image batches and their loads), SpecGradient     *)
(* (applyGradient over a set of option records), SpecPaint (setFillColor   *)
(* and applyGradient on any selection), SpecColor (the CMYK round trip),   *)
(* SpecHex (hexToRgb of the sidebar and of the stage), SpecBadHex          *)
(* (hexToRgb on malformed strings), SpecHexRound (hexToRgb then rgbToHex), *)
(* SpecMix (mix and mixColor), SpecPanels (the rail, the shape menu and    *)
(* the templates panel of the editor page), SpecColorPanel (the rail and   *)
(* the colour panel, each handler with the render and the effects that     *)
(* follow it) and SpecWelcome (the mini editor of the welcome page).       *)
(***************************************************************************)
EXTENDS Integers, Sequences, FiniteSets, TLC

VARIABLES
    tool,          \* toolRef.current
    textMode,      \* textMode prop captured by the mount effect
    objects,       \* canvas.getObjects(): sequence of object records
    active,        \* ids of canvas.getActiveObjects()
    isDrawingMode, \* canvas.isDrawingMode
    croppingFlag,  \* croppingFlagRef.current
    cropRect,      \* cropRectRef.current: optional overlay rect
    cropStart,     \* cropStartRef.current
    textDrag,      \* textDragRef.current: optional start record
    loads,         \* image loads in flight (addImages / addImagesAt / crop)
    objectUrls,    \* object URLs created by fileToObjectURL and not yet revoked
    fillColour,    \* fillColourRef.current
    brushColor,    \* canvas.freeDrawingBrush.color, once the stage has set it
    gradientOpts,  \* the gradient options the editor passes to applyGradient
    ev,            \* the handler that ran last, with its arguments
    rgb,           \* colour helpers: the RGB triple under conversion
    cmyk,          \* colour helpers: optional result of rgbToCmyk
    rgbBack,       \* colour helpers: optional result of cmykToRgb
    hexIn,         \* colour helpers: the hex string handed to hexToRgb
    hexSidebar,    \* colour helpers: optional result of the sidebar's hexToRgb
    hexStage,      \* colour helpers: optional result of the stage's hexToRgb
    hexBack,       \* colour helpers: optional result of rgbToHex
    mixArgs,       \* colour helpers: the arguments [a, b, t] handed to mix
    mixSidebar,    \* colour helpers: optional result of the sidebar's mix
    mixStage,      \* colour helpers: optional result of the stage's mixColor
    panels,        \* editor page: the eight show... flags, by panel id
    currentColor,  \* editor page: currentColor
    useRGB,        \* colour panel: useRGB
    cmykState,     \* colour panel: cmyk
    rgbState,      \* colour panel: rgb
    currentHex,    \* colour panel: currentHex of the last render
    els,           \* welcome page: els of EditorPreview
    selectedId,    \* welcome page: optional selectedId
    dragging       \* welcome page: optional dragging.id of its CanvasStage

vars == <<tool, textMode, objects, active, isDrawingMode, croppingFlag,
          cropRect, cropStart, textDrag, loads, objectUrls, fillColour,
          brushColor, gradientOpts, ev, rgb, cmyk, rgbBack, hexIn, hexSidebar,
          hexStage, hexBack, mixArgs, mixSidebar, mixStage, panels,
          currentColor, useRGB, cmykState, rgbState, currentHex, els,
          selectedId, dragging>>

stageVars == <<tool, textMode, objects, active, isDrawingMode, croppingFlag,
               cropRect, cropStart, textDrag, loads, objectUrls, fillColour,
               brushColor>>

colorVars == <<rgb, cmyk, rgbBack, hexIn, hexSidebar, hexStage, hexBack,
               mixArgs, mixSidebar, mixStage>>

cmykVars == <<rgb, cmyk, rgbBack>>

hexVars == <<hexIn, hexSidebar, hexStage, hexBack>>

mixVars == <<mixArgs, mixSidebar, mixStage>>

pageVars == <<panels, currentColor, useRGB, cmykState, rgbState, currentHex>>

welcomeVars == <<els, selectedId, dragging>>

shellVars == <<pageVars, welcomeVars>>

(***************************************************************************)
(* Generic helpers                                                         *)
(***************************************************************************)
None == <<>>

Some(v) == <<v>>

Max(a, b) == IF a >= b THEN a ELSE b

Min(a, b) == IF a <= b THEN a ELSE b

Abs(a) == IF a < 0 THEN -a ELSE a

\* Math.round(num / den) for den > 0: round half towards +infinity
RoundDiv(num, den) == (2 * num + den) \div (2 * den)

\* Math.min(max, Math.max(min, n)) on a fraction num/den, as a fraction over den
clamp(num, den) == Min(den, Max(0, num))

Range(s) == {s[i] : i \in DOMAIN s}

(***************************************************************************)
(* JavaScript string and number primitives used by the colour code         *)
(***************************************************************************)
UpperMap ==
    [A |-> "a", B |-> "b", C |-> "c", D |-> "d", E |-> "e", F |-> "f",
     G |-> "g", H |-> "h", I |-> "i", J |-> "j", K |-> "k", L |-> "l",
     M |-> "m", N |-> "n", O |-> "o", P |-> "p", Q |-> "q", R |-> "r",
     S |-> "s", T |-> "t", U |-> "u", V |-> "v", W |-> "w", X |-> "x",
     Y |-> "y", Z |-> "z"]

\* String.prototype.toLowerCase
toLowerCase(s) ==
    [i \in DOMAIN s |-> IF s[i] \in DOMAIN UpperMap THEN UpperMap[s[i]] ELSE s[i]]

HexChars == <<"0", "1", "2", "3", "4", "5", "6", "7",
              "8", "9", "a", "b", "c", "d", "e", "f">>

IsHexChar(c) == toLowerCase(<<c>>)[1] \in Range(HexChars)

HexVal(c) == CHOOSE v \in 0..15 : HexChars[v + 1] = toLowerCase(<<c>>)[1]

\* String.prototype.replace(c, ""): drops the first occurrence of c only
replaceFirst(s, c) ==
    IF c \notin Range(s) THEN s
    ELSE LET k == CHOOSE i \in DOMAIN s :
                     s[i] = c /\ \A j \in 1..(i - 1) : s[j] # c
         IN  SubSeq(s, 1, k - 1) \o SubSeq(s, k + 1, Len(s))

\* parseInt(s, 16): the value of the longest prefix of hex digits;
\* an empty prefix gives NaN, modelled as the empty option. The callers use
\* bits 0..23 of the value only, so the value is kept modulo 2^24.
HexPrefixLen(s) ==
    IF \A i \in DOMAIN s : IsHexChar(s[i]) THEN Len(s)
    ELSE (CHOOSE i \in DOMAIN s :
              ~IsHexChar(s[i]) /\ \A j \in 1..(i - 1) : IsHexChar(s[j])) - 1

RECURSIVE HexValue(_)
HexValue(s) ==
    IF s = <<>> THEN 0
    ELSE (16 * HexValue(SubSeq(s, 1, Len(s) - 1)) + HexVal(s[Len(s)])) % (2 ^ 24)

parsePrefix(s, n) == IF n = 0 THEN None ELSE Some(HexValue(SubSeq(s, 1, n)))

parseInt16(s) == parsePrefix(s, HexPrefixLen(s))

\* (n >> shift) & 255 for shift <= 16; NaN converts to 0
ShiftMask(n, shift) ==
    IF n = None THEN 0 ELSE (n[1] \div (2 ^ shift)) % 256

\* Number.prototype.toString(16) for 0 <= v, then padStart(2, "0")
RECURSIVE toString16(_)
toString16(v) ==
    IF v < 16 THEN <<HexChars[v + 1]>>
    ELSE toString16(v \div 16) \o <<HexChars[(v % 16) + 1]>>

padStart2(s) == IF Len(s) < 2 THEN <<"0">> \o s ELSE s

(***************************************************************************)
(* applyGradient: the colour helpers local to the stage                    *)
(***************************************************************************)
\* CanvasStage hexToRgb: never fails, garbage parses to what parseInt gives
\* if (h.length === 3) h = h[0] + h[0] + h[1] + h[1] + h[2] + h[2]
expandShort(h) ==
    IF Len(h) = 3 THEN <<h[1], h[1], h[2], h[2], h[3], h[3]>> ELSE h

\* r = (bigint >> 16) & 255, g = (bigint >> 8) & 255, b = bigint & 255
channelsOf(bigint) ==
    [r |-> ShiftMask(bigint, 16), g |-> ShiftMask(bigint, 8), b |-> ShiftMask(bigint, 0)]

stageHexToRgb(hex) == channelsOf(parseInt16(expandShort(replaceFirst(hex, "#"))))

\* `rgba(r, g, b, alpha)`: the four numbers of the string; alpha in hundredths
rgbaOf(c, alphaPct) == <<c.r, c.g, c.b, alphaPct>>

toRgba(hex, alphaPct) == rgbaOf(stageHexToRgb(hex), alphaPct)

\* the channel mix with Math.floor in the place of Math.round
mixChannel_floored(a, b, tPct) ==
    padStart2(toString16((100 * a + (b - a) * tPct) \div 100))

\* mixColor(aHex, bHex, t) with t = tPct / 100
\* Math.round(a + (b - a) * t) as two hex digits; the quotient is taken
\* exactly and a tie goes up, which is what the double arithmetic delivers for
\* the channel values 0 and 255 at every fraction used here
mixChannel(a, b, tPct) ==
    padStart2(toString16(RoundDiv(100 * a + (b - a) * tPct, 100)))

mixRgb(a, b, tPct) ==
    <<"#">> \o mixChannel(a.r, b.r, tPct) \o mixChannel(a.g, b.g, tPct)
           \o mixChannel(a.b, b.b, tPct)

mixColor(aHex, bHex, tPct) ==
    mixRgb(stageHexToRgb(aHex), stageHexToRgb(bHex), tPct)

(***************************************************************************)
(* applyGradient: compiling one gradient for one target                    *)
(***************************************************************************)
\* Math.cos / Math.sin of (angle * Math.PI) / 180 on the quarter turns, where
\* the value is an integer (the double's residue below 1e-15 is dropped)
CosDeg(angle) ==
    CASE angle % 360 = 0 -> 1
      [] angle % 360 = 90 -> 0
      [] angle % 360 = 180 -> -1
      [] angle % 360 = 270 -> 0

SinDeg(angle) ==
    CASE angle % 360 = 0 -> 0
      [] angle % 360 = 90 -> 1
      [] angle % 360 = 180 -> 0
      [] angle % 360 = 270 -> -1

\* `v || dflt` on a number: 0 is falsy
OrElse(v, dflt) == IF v = 0 THEN dflt ELSE v

\* `opt != null ? opt : dflt`
Coalesce(opt, dflt) == IF opt = None THEN dflt ELSE opt[1]

Str_linear == <<"l", "i", "n", "e", "a", "r">>

Str_radial == <<"r", "a", "d", "i", "a", "l">>

Str_conic == <<"c", "o", "n", "i", "c">>

Str_diamond == <<"d", "i", "a", "m", "o", "n", "d">>

Str_reflected == <<"r", "e", "f", "l", "e", "c", "t", "e", "d">>

Str_multipoint == <<"m", "u", "l", "t", "i", "-", "p", "o", "i", "n", "t">>

Str_multi == <<"m", "u", "l", "t", "i">>

\* the branch applyGradient takes for a lower-cased type string
\* a dispatch whose last branch is one more family instead of the fallback
gradientFamily_noFallback(type) ==
    IF type = Str_radial \/ type = Str_conic THEN "radial"
    ELSE IF type = Str_diamond THEN "diamond"
    ELSE IF type = Str_reflected THEN "reflected"
    ELSE IF type = Str_linear THEN "linear"
    ELSE "multi"

gradientFamily(type) ==
    IF type = Str_radial \/ type = Str_conic THEN "radial"
    ELSE IF type = Str_diamond THEN "diamond"
    ELSE IF type = Str_reflected THEN "reflected"
    ELSE IF type = Str_multipoint \/ type = Str_multi THEN "multi"
    ELSE "linear"

\* the stops with the multi-point family placing its second stop at mid
colorStopsOf_multiAtMid(family, midPct, c1Rgba, c2Rgba, mixedMidRgba, mixed35Rgba, mixed70Rgba) ==
    IF family = "reflected"
    THEN <<[offset |-> 0, color |-> c1Rgba],
           [offset |-> midPct, color |-> mixedMidRgba],
           [offset |-> 100 - midPct, color |-> mixedMidRgba],
           [offset |-> 100, color |-> c1Rgba]>>
    ELSE IF family = "multi"
    THEN <<[offset |-> 0, color |-> c1Rgba],
           [offset |-> midPct, color |-> mixedMidRgba],
           [offset |-> 70, color |-> mixed70Rgba],
           [offset |-> 100, color |-> c2Rgba]>>
    ELSE <<[offset |-> 0, color |-> c1Rgba],
           [offset |-> midPct, color |-> mixedMidRgba],
           [offset |-> 100, color |-> c2Rgba]>>

\* the color stops of a family, from the stops' rgba colors
colorStopsOf(family, midPct, c1Rgba, c2Rgba, mixedMidRgba, mixed35Rgba, mixed70Rgba) ==
    IF family = "reflected"
    THEN <<[offset |-> 0, color |-> c1Rgba],
           [offset |-> midPct, color |-> mixedMidRgba],
           [offset |-> 100 - midPct, color |-> mixedMidRgba],
           [offset |-> 100, color |-> c1Rgba]>>
    ELSE IF family = "multi"
    THEN <<[offset |-> 0, color |-> c1Rgba],
           [offset |-> 35, color |-> mixed35Rgba],
           [offset |-> 70, color |-> mixed70Rgba],
           [offset |-> 100, color |-> c2Rgba]>>
    ELSE <<[offset |-> 0, color |-> c1Rgba],
           [offset |-> midPct, color |-> mixedMidRgba],
           [offset |-> 100, color |-> c2Rgba]>>

\* the coordinates of a family: center and radii, or start and end point
coordsOf(family, width, height, origin, aspect, angleVal) ==
    IF family = "radial"
    THEN [x1 |-> width * OrElse(origin.x, 50), y1 |-> height * OrElse(origin.y, 50),
          r1 |-> 0,
          x2 |-> width * OrElse(origin.x, 50), y2 |-> height * OrElse(origin.y, 50),
          r2 |-> Max(width, height) * 50]
    ELSE IF family = "diamond"
    THEN [x1 |-> width * OrElse(origin.x, 50), y1 |-> height * OrElse(origin.y, 50),
          r1 |-> 0,
          x2 |-> width * OrElse(origin.x, 50), y2 |-> height * OrElse(origin.y, 50),
          r2 |-> (Min(width, height) * aspect) \div 2]
    ELSE [x1 |-> width * OrElse(origin.x, 0),
          y1 |-> height * OrElse(origin.y, 0),
          x2 |-> width * OrElse(origin.x, 0) + CosDeg(angleVal) * width * aspect,
          y2 |-> height * OrElse(origin.y, 0) + SinDeg(angleVal) * height * 100]

\* new fabric.Gradient({type, coords, colorStops})
gradientOf(family, coords, colorStops) ==
    [kind |-> "gradient",
     type |-> IF family \in {"radial", "diamond"} THEN "radial" ELSE "linear",
     coords |-> coords, colorStops |-> colorStops]

\* the gradient from the options' values, defaults filled in
compileWith(family, width, height, origin, aspect, angleVal, midPct, alpha, cStart, cEnd) ==
    gradientOf(family,
               coordsOf(family, width, height, origin, aspect, angleVal),
               colorStopsOf(family, midPct, toRgba(cStart, alpha), toRgba(cEnd, alpha),
                            toRgba(mixColor(cStart, cEnd, midPct), alpha),
                            toRgba(mixColor(cStart, cEnd, 35), alpha),
                            toRgba(mixColor(cStart, cEnd, 70), alpha)))

\* the compiler with the reverse flag left unread
compileGradient_reverseIgnored(options, width, height) ==
    compileWith(gradientFamily(toLowerCase(IF options.type = <<>> THEN Str_linear
                                           ELSE options.type)),
                width, height,
                IF options.origin = None THEN [x |-> 0, y |-> 0] ELSE options.origin[1],
                Max(1, OrElse(Coalesce(options.aspectRatio, 0), 100)),
                Coalesce(options.angle, 0),
                Coalesce(options.mid, 50),
                Coalesce(options.opacity, 100),
                options.c1,
                options.c2)

\* the body of active.forEach in applyGradient, up to the gradient object:
\* offsets, origin, aspect and alpha in hundredths, coordinates times 100
compileGradient(options, width, height) ==
    compileWith(gradientFamily(toLowerCase(IF options.type = <<>> THEN Str_linear
                                           ELSE options.type)),
                width, height,
                IF options.origin = None THEN [x |-> 0, y |-> 0] ELSE options.origin[1],
                Max(1, OrElse(Coalesce(options.aspectRatio, 0), 100)),
                Coalesce(options.angle, 0),
                Coalesce(options.mid, 50),
                Coalesce(options.opacity, 100),
                IF options.reverse THEN options.c2 ELSE options.c1,
                IF options.reverse THEN options.c1 ELSE options.c2)

(***************************************************************************)
(* The canvas: objects, selection, mounting                                *)
(***************************************************************************)
\* bounds of the model
MaxObjects == 3

MaxLoads == 1

MaxBatch == 1

\* pointer positions the gestures use
Points == {<<50, 50>>, <<150, 120>>}

Tools == {"move", "crop", "text"}

TextModes == {"point", "area"}

Hex_111827 == <<"#", "1", "1", "1", "8", "2", "7">>

Hex_60a5fa == <<"#", "6", "0", "a", "5", "f", "a">>

Hex_1d4ed8 == <<"#", "1", "d", "4", "e", "d", "8">>

Hex_1f2937 == <<"#", "1", "f", "2", "9", "3", "7">>

Hex_c01919 == <<"#", "c", "0", "1", "9", "1", "9">>

Hex_ff3b3b == <<"#", "f", "f", "3", "b", "3", "b">>

Flat(hex) == [kind |-> "color", hex |-> hex]

\* an rgba(...) string given as a fill
FlatRgba(r, g, b, alphaPct) == [kind |-> "rgba", rgba |-> <<r, g, b, alphaPct>>]

NoPaint == [kind |-> "none"]

Ids(objs) == {objs[i].id : i \in DOMAIN objs}

\* a new object is a new identity: no object on the canvas or held by a ref has it
FreshId(objs, held) ==
    CHOOSE n \in 1..(Len(objs) + Len(held) + 1) :
        /\ n \notin Ids(objs) \cup Ids(held)
        /\ \A m \in 1..(n - 1) : m \in Ids(objs) \cup Ids(held)

\* CanvasEngine constructor: the bleed guide
bleedRect(id) ==
    [id |-> id, type |-> "rect", left |-> 40, top |-> 40, width |-> 720,
     height |-> 520, fill |-> FlatRgba(0, 0, 0, 0), stroke |-> Flat(Hex_ff3b3b),
     scale |-> 100, excludeFromExport |-> TRUE, evented |-> FALSE]

\* mount effect: the default rectangle
defaultRect(id) ==
    [id |-> id, type |-> "rect", left |-> 100, top |-> 100, width |-> 200,
     height |-> 120, fill |-> Flat(Hex_60a5fa), stroke |-> Flat(Hex_1d4ed8),
     scale |-> 100, excludeFromExport |-> FALSE, evented |-> TRUE]

\* canvas.remove(o) for every o with id in ids
RemoveIds(objs, ids) == SelectSeq(objs, LAMBDA o : o.id \notin ids)

\* the canvas a mount effect builds, given the refs that survive it
MountedObjects(held) ==
    LET b == bleedRect(FreshId(<<>>, held))
    IN  <<b, defaultRect(FreshId(<<b>>, held))>>

(***************************************************************************)
(* Pointer handlers of the mount effect                                    *)
(***************************************************************************)
Event(op) == [op |-> op, arg |-> None]

EventWith(op, arg) == [op |-> op, arg |-> Some(arg)]

\* what the pointer can be over: 0 (nothing) or an object that takes events
Targets == {0} \cup {objects[i].id : i \in {j \in DOMAIN objects : objects[j].evented}}

\* the crop overlay handleMouseDown creates
cropOverlay(id, x, y) ==
    [id |-> id, type |-> "rect", left |-> x, top |-> y, width |-> 0, height |-> 0,
     fill |-> FlatRgba(0, 0, 0, 20), stroke |-> Flat(Hex_c01919),
     scale |-> 100, excludeFromExport |-> FALSE, evented |-> FALSE]

\* the rectangle of the "rect" tool
toolRect(id, x, y) ==
    [id |-> id, type |-> "rect", left |-> x, top |-> y, width |-> 120, height |-> 80,
     fill |-> Flat(fillColour), stroke |-> Flat(Hex_1f2937),
     scale |-> 100, excludeFromExport |-> FALSE, evented |-> TRUE]

\* mouse:down. The engine first updates the selection (the object under the
\* pointer becomes the selection, a press on the empty canvas clears it), then
\* handleMouseDown runs.
handleMouseDown(p, tgt) ==
    /\ tgt \in Targets
    /\ (tgt = 0 /\ tool \in {"crop", "rect"}) => Len(objects) < MaxObjects
    /\ ev' = Event("mouseDown")
    /\ IF tgt # 0
       THEN /\ active' = {tgt}
            /\ UNCHANGED <<objects, croppingFlag, cropRect, cropStart, textDrag>>
       ELSE IF tool = "crop"
       THEN LET rect == cropOverlay(FreshId(objects, cropRect), p[1], p[2])
            IN  /\ croppingFlag' = TRUE
                /\ cropStart' = [x |-> p[1], y |-> p[2]]
                /\ cropRect' = Some(rect)
                /\ objects' = Append(objects, rect)
                /\ active' = {}
                /\ UNCHANGED textDrag
       ELSE IF tool = "rect"
       THEN LET obj == toolRect(FreshId(objects, cropRect), p[1], p[2])
            IN  /\ objects' = Append(objects, obj)
                /\ active' = {obj.id}
                /\ UNCHANGED <<croppingFlag, cropRect, cropStart, textDrag>>
       ELSE IF tool = "text"
       THEN /\ textDrag' = Some([startX |-> p[1], startY |-> p[2], dragging |-> FALSE])
            /\ active' = {}
            /\ UNCHANGED <<objects, croppingFlag, cropRect, cropStart>>
       ELSE /\ active' = {}
            /\ UNCHANGED <<objects, croppingFlag, cropRect, cropStart, textDrag>>
    /\ UNCHANGED <<tool, textMode, isDrawingMode, loads, fillColour, gradientOpts>>
    /\ UNCHANGED objectUrls
    /\ UNCHANGED brushColor
    /\ UNCHANGED colorVars
    /\ UNCHANGED shellVars

\* cropRectRef.current.set({width, height}): the one overlay object changes,
\* whether or not it is still on the canvas
resizedOverlay(rect, p) ==
    [rect EXCEPT !.width = p[1] - cropStart.x, !.height = p[2] - cropStart.y]

\* mouse:move; it returns at once unless a crop drag is under way
handleMouseMove(p) ==
    /\ ~(tool # "crop" \/ ~croppingFlag \/ cropRect = None)
    /\ ev' = EventWith("mouseMove", p)
    /\ cropRect' = Some(resizedOverlay(cropRect[1], p))
    /\ objects' = [i \in DOMAIN objects |->
                      IF objects[i].id = cropRect[1].id
                      THEN resizedOverlay(cropRect[1], p)
                      ELSE objects[i]]
    /\ UNCHANGED <<tool, textMode, active, isDrawingMode, croppingFlag, cropStart,
                   textDrag, loads, fillColour, gradientOpts>>
    /\ UNCHANGED objectUrls
    /\ UNCHANGED brushColor
    /\ UNCHANGED colorVars
    /\ UNCHANGED shellVars

\* a text decision that looks at the displacement only
createsAreaText_draggedOnly(mode, dx, dy) == dx > 4 \/ dy > 4

\* (dragged && !forcePoint) || forceArea, with dragged = dx > 4 || dy > 4
createsAreaText(mode, dx, dy) ==
    ((dx > 4 \/ dy > 4) /\ ~(mode = "point")) \/ mode = "area"

\* a text box placed at the gesture's start point
areaText_atStart(id, start, p) ==
    [id |-> id, type |-> "textbox",
     left |-> start.startX, top |-> start.startY,
     width |-> Max(40, Abs(p[1] - start.startX)),
     height |-> Max(24, Abs(p[2] - start.startY)),
     fill |-> Flat(fillColour), stroke |-> NoPaint,
     scale |-> 100, excludeFromExport |-> FALSE, evented |-> TRUE]

\* new fabric.Textbox("Type here", {...}) of the text branch
areaText(id, start, p) ==
    [id |-> id, type |-> "textbox",
     left |-> Min(start.startX, p[1]), top |-> Min(start.startY, p[2]),
     width |-> Max(40, Abs(p[1] - start.startX)),
     height |-> Max(24, Abs(p[2] - start.startY)),
     fill |-> Flat(fillColour), stroke |-> NoPaint,
     scale |-> 100, excludeFromExport |-> FALSE, evented |-> TRUE]

\* new fabric.IText("Type here", {...}): no width or height is given
pointText(id, start) ==
    [id |-> id, type |-> "i-text", left |-> start.startX, top |-> start.startY,
     width |-> 0, height |-> 0, fill |-> Flat(fillColour), stroke |-> NoPaint,
     scale |-> 100, excludeFromExport |-> FALSE, evented |-> TRUE]

\* an image load in flight: where the image will go, whether an object URL
\* must be revoked, and whether the canvas it captured is still the mounted one
Load(kind, index, left, top, width, height, revoke) ==
    [kind |-> kind, index |-> index, left |-> left, top |-> top, width |-> width,
     height |-> height, revoke |-> revoke, live |-> TRUE]

\* a normalisation that takes the absolute extents but leaves the corner
mouseUpCropArea_noShift(rect) ==
    [left |-> OrElse(rect.left, 0), top |-> OrElse(rect.top, 0),
     width |-> Abs(OrElse(rect.width, 0)), height |-> Abs(OrElse(rect.height, 0))]

\* the rectangle handleMouseUp passes to canvas.toDataURL
mouseUpCropArea(rect) ==
    LET left0 == OrElse(rect.left, 0)
        top0 == OrElse(rect.top, 0)
        width0 == OrElse(rect.width, 0)
        height0 == OrElse(rect.height, 0)
    IN  [left |-> IF width0 < 0 THEN left0 + width0 ELSE left0,
         top |-> IF height0 < 0 THEN top0 + height0 ELSE top0,
         width |-> IF width0 < 0 THEN Abs(width0) ELSE width0,
         height |-> IF height0 < 0 THEN Abs(height0) ELSE height0]

\* mouse:up
handleMouseUp(p) ==
    /\ ev' = EventWith("mouseUp", p)
    /\ IF tool = "text" /\ textDrag # None
       THEN LET start == textDrag[1]
                dx == Abs(p[1] - start.startX)
                dy == Abs(p[2] - start.startY)
                id == FreshId(objects, cropRect)
                obj == IF createsAreaText(textMode, dx, dy)
                       THEN areaText(id, start, p)
                       ELSE pointText(id, start)
            IN  /\ Len(objects) < MaxObjects
                /\ objects' = Append(objects, obj)
                /\ active' = {id}
                /\ textDrag' = None
                /\ UNCHANGED <<croppingFlag, cropRect, loads>>
       ELSE IF tool # "crop" \/ ~croppingFlag \/ cropRect = None
       THEN UNCHANGED <<objects, active, textDrag, croppingFlag, cropRect, loads>>
       ELSE LET area == mouseUpCropArea(cropRect[1])
                afterOverlay == RemoveIds(objects, {cropRect[1].id})
                kept == SelectSeq(afterOverlay, LAMBDA o : o.excludeFromExport)
            IN  /\ Len(loads) < MaxLoads
                /\ croppingFlag' = FALSE
                /\ cropRect' = None
                /\ objects' = kept
                /\ active' = active \cap Ids(kept)
                /\ loads' = Append(loads, Load("crop", 0, area.left, area.top,
                                               area.width, area.height, FALSE))
                /\ UNCHANGED textDrag
    /\ UNCHANGED <<tool, textMode, isDrawingMode, cropStart, fillColour, gradientOpts>>
    /\ UNCHANGED objectUrls
    /\ UNCHANGED brushColor
    /\ UNCHANGED colorVars
    /\ UNCHANGED shellVars

(***************************************************************************)
(* Imperative API and image loading                                        *)
(***************************************************************************)
\* the rectangle finalizeCrop passes to canvas.toDataURL
finalizeCropArea(rect) ==
    LET left0 == OrElse(rect.left, 0)
        top0 == OrElse(rect.top, 0)
        width0 == OrElse(rect.width, 0)
        height0 == OrElse(rect.height, 0)
    IN  [left |-> IF width0 < 0 THEN left0 + width0 ELSE left0,
         top |-> IF height0 < 0 THEN top0 + height0 ELSE top0,
         width |-> IF width0 < 0 THEN Abs(width0) ELSE width0,
         height |-> IF height0 < 0 THEN Abs(height0) ELSE height0]

\* finalizeCrop without its first line: it rasterizes whatever rect there is
finalizeCrop_unguarded ==
    /\ ev' = Event("finalizeCrop")
    /\ LET area == IF cropRect = None
                   THEN [left |-> 0, top |-> 0, width |-> 0, height |-> 0]
                   ELSE finalizeCropArea(cropRect[1])
           afterOverlay == IF cropRect = None THEN objects
                           ELSE RemoveIds(objects, {cropRect[1].id})
           kept == SelectSeq(afterOverlay, LAMBDA o : o.excludeFromExport)
       IN  /\ Len(loads) < MaxLoads
           /\ croppingFlag' = FALSE
           /\ cropRect' = None
           /\ objects' = kept
           /\ active' = active \cap Ids(kept)
           /\ loads' = Append(loads, Load("crop", 0, area.left, area.top,
                                          area.width, area.height, FALSE))
    /\ UNCHANGED <<tool, textMode, isDrawingMode, cropStart, textDrag, fillColour,
                   gradientOpts>>
    /\ UNCHANGED objectUrls
    /\ UNCHANGED brushColor
    /\ UNCHANGED colorVars
    /\ UNCHANGED shellVars

\* CanvasStageRef.finalizeCrop
finalizeCrop ==
    /\ ev' = Event("finalizeCrop")
    /\ IF ~croppingFlag \/ cropRect = None
       THEN UNCHANGED <<objects, active, croppingFlag, cropRect, loads>>
       ELSE LET area == finalizeCropArea(cropRect[1])
                afterOverlay == RemoveIds(objects, {cropRect[1].id})
                kept == SelectSeq(afterOverlay, LAMBDA o : o.excludeFromExport)
            IN  /\ Len(loads) < MaxLoads
                /\ croppingFlag' = FALSE
                /\ cropRect' = None
                /\ objects' = kept
                /\ active' = active \cap Ids(kept)
                /\ loads' = Append(loads, Load("crop", 0, area.left, area.top,
                                               area.width, area.height, FALSE))
    /\ UNCHANGED <<tool, textMode, isDrawingMode, cropStart, textDrag, fillColour,
                   gradientOpts>>
    /\ UNCHANGED objectUrls
    /\ UNCHANGED brushColor
    /\ UNCHANGED colorVars
    /\ UNCHANGED shellVars

\* the callback of fabric.Image.fromURL(dataUrl, ...) after a crop
cropImageLoaded(i) ==
    /\ i \in DOMAIN loads
    /\ loads[i].kind = "crop"
    /\ ev' = EventWith("cropImageLoaded", loads[i])
    /\ loads' = SubSeq(loads, 1, i - 1) \o SubSeq(loads, i + 1, Len(loads))
    /\ IF loads[i].live
       THEN LET img == [id |-> FreshId(objects, cropRect), type |-> "image",
                        left |-> loads[i].left, top |-> loads[i].top,
                        width |-> loads[i].width, height |-> loads[i].height,
                        fill |-> NoPaint, stroke |-> NoPaint,
                        scale |-> 100, excludeFromExport |-> FALSE, evented |-> TRUE]
            IN  /\ Len(objects) < MaxObjects
                /\ objects' = Append(objects, img)
                /\ active' = {img.id}
       ELSE UNCHANGED <<objects, active>>
    /\ UNCHANGED <<tool, textMode, isDrawingMode, croppingFlag, cropRect, cropStart,
                   textDrag, fillColour, gradientOpts>>
    /\ UNCHANGED objectUrls
    /\ UNCHANGED brushColor
    /\ UNCHANGED colorVars
    /\ UNCHANGED shellVars

\* batches of items handed to addImages / addImagesAt: files and URLs
ItemKinds == {"file", "url"}

Batches == UNION {[1..n -> ItemKinds] : n \in 1..MaxBatch}

\* the loads items.forEach starts: each closure holds its index, the drop
\* point (addImagesAt) and the revoker of the object URL made for a File
startedLoads(kind, x, y, items) ==
    [k \in DOMAIN items |-> Load(kind, k - 1, x, y, 0, 0, items[k] = "file")]

\* fileToObjectURL ran once for every File of the batch
createdUrls(items) == Cardinality({k \in DOMAIN items : items[k] = "file"})

\* addImages(items)
addImages(items) ==
    /\ ev' = Event("addImages")
    /\ loads' = loads \o startedLoads("image", 0, 0, items)
    /\ objectUrls' = objectUrls + createdUrls(items)
    /\ UNCHANGED <<tool, textMode, objects, active, isDrawingMode, croppingFlag,
                   cropRect, cropStart, textDrag, fillColour, gradientOpts>>
    /\ UNCHANGED brushColor
    /\ UNCHANGED colorVars
    /\ UNCHANGED shellVars

\* addImagesAt(x, y, items)
addImagesAt(p, items) ==
    /\ ev' = Event("addImagesAt")
    /\ loads' = loads \o startedLoads("imageAt", p[1], p[2], items)
    /\ objectUrls' = objectUrls + createdUrls(items)
    /\ UNCHANGED <<tool, textMode, objects, active, isDrawingMode, croppingFlag,
                   cropRect, cropStart, textDrag, fillColour, gradientOpts>>
    /\ UNCHANGED brushColor
    /\ UNCHANGED colorVars
    /\ UNCHANGED shellVars

MAX_IMG_SIDE == 600

\* natural sizes of the images that load
ImageSizes == {<<1200, 800>>}

ImageKinds == {"image", "imageAt"}

\* a placement that counts the images as they arrive
imagePosition_byArrival(load) ==
    IF load.kind = "image"
    THEN [left |-> 80 + (Len(objects) - 2) * 20, top |-> 80 + (Len(objects) - 2) * 20]
    ELSE [left |-> load.left + (Len(objects) - 2) * 10,
          top |-> load.top + (Len(objects) - 2) * 10]

\* img.set({left, top}) in the continuation: 80 + index * 20 in addImages,
\* x + index * 10 in addImagesAt
imagePosition(load) ==
    IF load.kind = "image"
    THEN [left |-> 80 + load.index * 20, top |-> 80 + load.index * 20]
    ELSE [left |-> load.left + load.index * 10, top |-> load.top + load.index * 10]

\* revoke?.() of the finally block
afterRevoke(load) == IF load.revoke THEN objectUrls - 1 ELSE objectUrls

\* `await loadFabricImage(src)` resolves: the rest of the try block, then finally
imageLoaded(i, size) ==
    /\ i \in DOMAIN loads
    /\ loads[i].kind \in ImageKinds
    /\ ev' = EventWith("imageLoaded", loads[i])
    /\ loads' = SubSeq(loads, 1, i - 1) \o SubSeq(loads, i + 1, Len(loads))
    /\ objectUrls' = afterRevoke(loads[i])
    /\ IF loads[i].live
       THEN LET scale == Min(100, (MAX_IMG_SIDE * 100) \div Max(size[1], size[2]))
                img == [id |-> FreshId(objects, cropRect), type |-> "image",
                        left |-> imagePosition(loads[i]).left,
                        top |-> imagePosition(loads[i]).top,
                        width |-> size[1], height |-> size[2], scale |-> scale,
                        fill |-> NoPaint, stroke |-> NoPaint,
                        excludeFromExport |-> FALSE, evented |-> TRUE]
            IN  /\ objects' = Append(objects, img)
                /\ active' = {img.id}
       ELSE UNCHANGED <<objects, active>>
    /\ UNCHANGED <<tool, textMode, isDrawingMode, croppingFlag, cropRect, cropStart,
                   textDrag, fillColour, gradientOpts>>
    /\ UNCHANGED brushColor
    /\ UNCHANGED colorVars
    /\ UNCHANGED shellVars

\* a failure that skips the clean-up
imageFailed_noFinally(i) ==
    /\ i \in DOMAIN loads
    /\ loads[i].kind \in ImageKinds
    /\ ev' = EventWith("imageFailed", loads[i])
    /\ loads' = SubSeq(loads, 1, i - 1) \o SubSeq(loads, i + 1, Len(loads))
    /\ UNCHANGED <<tool, textMode, objects, active, isDrawingMode, croppingFlag,
                   cropRect, cropStart, textDrag, fillColour, gradientOpts, objectUrls>>
    /\ UNCHANGED brushColor
    /\ UNCHANGED colorVars
    /\ UNCHANGED shellVars

\* `await loadFabricImage(src)` rejects: only the finally block runs
imageFailed(i) ==
    /\ i \in DOMAIN loads
    /\ loads[i].kind \in ImageKinds
    /\ ev' = EventWith("imageFailed", loads[i])
    /\ loads' = SubSeq(loads, 1, i - 1) \o SubSeq(loads, i + 1, Len(loads))
    /\ objectUrls' = afterRevoke(loads[i])
    /\ UNCHANGED <<tool, textMode, objects, active, isDrawingMode, croppingFlag,
                   cropRect, cropStart, textDrag, fillColour, gradientOpts>>
    /\ UNCHANGED brushColor
    /\ UNCHANGED colorVars
    /\ UNCHANGED shellVars

(***************************************************************************)
(* Props: tool and text mode                                               *)
(***************************************************************************)
\* useEffect[selectedTool]: runs when the selectedTool prop changes
selectTool(t) ==
    /\ t # tool
    /\ ev' = Event("selectTool")
    /\ tool' = t
    /\ isDrawingMode' = (t = "brush")
    /\ UNCHANGED <<textMode, objects, active, croppingFlag, cropRect, cropStart,
                   textDrag, loads, fillColour, gradientOpts>>
    /\ UNCHANGED objectUrls
    /\ brushColor' = IF t = "brush" THEN Some(fillColour) ELSE brushColor
    /\ UNCHANGED colorVars
    /\ UNCHANGED shellVars

\* the page's onTextLayoutChange(mode) for point / area: selects the text tool
\* and sets textMode. A changed textMode re-runs the mount effect: its cleanup
\* disposes the canvas and a new engine and canvas are built; the refs stay.
textLayoutChange(mode) ==
    /\ ev' = Event("textLayoutChange")
    /\ tool' = "text"
    /\ textMode' = mode
    /\ IF mode # textMode
       THEN LET objs == MountedObjects(cropRect)
            IN  /\ objects' = objs
                /\ active' = {objs[2].id}
                /\ isDrawingMode' = FALSE
                /\ brushColor' = None
                /\ loads' = [i \in DOMAIN loads |-> [loads[i] EXCEPT !.live = FALSE]]
       ELSE /\ isDrawingMode' = IF tool # "text" THEN FALSE ELSE isDrawingMode
            /\ UNCHANGED <<objects, active, loads, brushColor>>
    /\ UNCHANGED <<croppingFlag, cropRect, cropStart, textDrag, fillColour, gradientOpts>>
    /\ UNCHANGED objectUrls
    /\ UNCHANGED colorVars
    /\ UNCHANGED shellVars

(***************************************************************************)
(* applyGradient on the selection                                          *)
(***************************************************************************)
\* obj.getBoundingRect(true, true): the object's scaled extent
getBoundingRect(obj) ==
    [width |-> (obj.width * obj.scale) \div 100,
     height |-> (obj.height * obj.scale) \div 100]

\* one pass of active.forEach with the fill assigned whatever applyTo says
paintObject_fillAlways(obj, options) ==
    LET bounds == getBoundingRect(obj)
        grad == compileGradient(options, bounds.width, bounds.height)
        applyTo == Coalesce(options.applyTo, "fill")
        stroked == IF applyTo = "stroke" \/ applyTo = "both"
                   THEN [obj EXCEPT !.stroke = grad] ELSE obj
    IN  [stroked EXCEPT !.fill = grad]

\* one pass of active.forEach: compile for the object's bounds, then set()
paintObject(obj, options) ==
    LET bounds == getBoundingRect(obj)
        grad == compileGradient(options, bounds.width, bounds.height)
        applyTo == Coalesce(options.applyTo, "fill")
        stroked == IF applyTo = "stroke" \/ applyTo = "both"
                   THEN [obj EXCEPT !.stroke = grad] ELSE obj
    IN  IF applyTo = "fill" \/ applyTo = "both"
        THEN [stroked EXCEPT !.fill = grad] ELSE stroked

\* CanvasStageRef.applyGradient(options), called with the editor's options
applyGradient ==
    /\ ev' = Event("applyGradient")
    /\ IF active = {}
       THEN UNCHANGED objects
       ELSE objects' = [i \in DOMAIN objects |->
                           IF objects[i].id \in active
                           THEN paintObject(objects[i], gradientOpts)
                           ELSE objects[i]]
    /\ UNCHANGED <<tool, textMode, active, isDrawingMode, croppingFlag, cropRect,
                   cropStart, textDrag, loads, fillColour, gradientOpts>>
    /\ UNCHANGED objectUrls
    /\ UNCHANGED brushColor
    /\ UNCHANGED colorVars
    /\ UNCHANGED shellVars

\* setFillColor with the fill put on every object of the canvas
setFillColor_everyObject(hex) ==
    /\ ev' = EventWith("setFillColor", hex)
    /\ fillColour' = hex
    /\ brushColor' = IF isDrawingMode THEN Some(hex) ELSE brushColor
    /\ objects' = [i \in DOMAIN objects |-> [objects[i] EXCEPT !.fill = Flat(hex)]]
    /\ UNCHANGED <<tool, textMode, active, isDrawingMode, croppingFlag, cropRect,
                   cropStart, textDrag, loads, objectUrls, gradientOpts>>
    /\ UNCHANGED colorVars
    /\ UNCHANGED shellVars

\* CanvasStageRef.setFillColor(hex): remembers the colour, recolours the brush
\* while drawing, and fills the active objects
setFillColor(hex) ==
    /\ ev' = EventWith("setFillColor", hex)
    /\ fillColour' = hex
    /\ brushColor' = IF isDrawingMode THEN Some(hex) ELSE brushColor
    /\ objects' = [i \in DOMAIN objects |->
                      IF objects[i].id \in active
                      THEN [objects[i] EXCEPT !.fill = Flat(hex)]
                      ELSE objects[i]]
    /\ UNCHANGED <<tool, textMode, active, isDrawingMode, croppingFlag, cropRect,
                   cropStart, textDrag, loads, objectUrls, gradientOpts>>
    /\ UNCHANGED colorVars
    /\ UNCHANGED shellVars

(***************************************************************************)
(* Colour panel helpers (LeftSidebar)                                      *)
(***************************************************************************)
\* Math.round(num / den) as the double arithmetic of the source can deliver it:
\* the nearest integer, and either neighbour when the exact quotient is a tie
\* (the quotient is reached through several roundings, which can land on
\* either side of .5)
mathRound(num, den) ==
    IF (2 * num) % (2 * den) = den
    THEN {num \div den, num \div den + 1}
    ELSE {RoundDiv(num, den)}

\* rgbToCmyk(r, g, b): percentages; C = (max - r) / max, K = 1 - max / 255
rgbToCmyk(c) ==
    LET mx == Max(c[1], Max(c[2], c[3]))
        part(v) == IF mx = 0 THEN {0} ELSE mathRound(100 * clamp(mx - v, mx), mx)
    IN  [c : part(c[1]), m : part(c[2]), y : part(c[3]),
         k : mathRound(100 * clamp(255 - mx, 255), 255)]

\* cmykToRgb that forgets the key component: Math.round(255 * (1 - C))
cmykToRgb_noKey(q) ==
    mathRound(255 * (100 - q.c), 100)
    \X mathRound(255 * (100 - q.m), 100)
    \X mathRound(255 * (100 - q.y), 100)

\* cmykToRgb(c, m, y, k): Math.round(255 * (1 - C) * (1 - K))
cmykToRgb(q) ==
    mathRound(255 * (100 - q.c) * (100 - q.k), 10000)
    \X mathRound(255 * (100 - q.m) * (100 - q.k), 10000)
    \X mathRound(255 * (100 - q.y) * (100 - q.k), 10000)

\* swatch picked in CMYK mode: setCMYK(rgbToCmyk(...))
pickSwatchCmyk ==
    /\ cmyk = None
    /\ \E q \in rgbToCmyk(rgb) : cmyk' = Some(q)
    /\ ev' = Event("pickSwatchCmyk")
    /\ UNCHANGED <<rgb, rgbBack, gradientOpts>>
    /\ UNCHANGED hexVars
    /\ UNCHANGED mixVars
    /\ UNCHANGED stageVars
    /\ UNCHANGED shellVars

\* the next render: currentRgb = cmykToRgb(cmyk.c, cmyk.m, cmyk.y, cmyk.k)
renderCurrentRgb ==
    /\ cmyk # None
    /\ rgbBack = None
    /\ \E back \in cmykToRgb(cmyk[1]) : rgbBack' = Some(back)
    /\ ev' = Event("renderCurrentRgb")
    /\ UNCHANGED <<rgb, cmyk, gradientOpts>>
    /\ UNCHANGED hexVars
    /\ UNCHANGED mixVars
    /\ UNCHANGED stageVars
    /\ UNCHANGED shellVars

\* the capture groups of /^#?([a-f\d]{2})([a-f\d]{2})([a-f\d]{2})$/i on the
\* string behind the optional '#': six hex digits, or no match (null)
hexGroups(h) ==
    IF Len(h) = 6 /\ \A i \in 1..6 : IsHexChar(h[i])
    THEN Some([r |-> HexValue(SubSeq(h, 1, 2)), g |-> HexValue(SubSeq(h, 3, 4)),
               b |-> HexValue(SubSeq(h, 5, 6))])
    ELSE None

\* the sidebar's hexToRgb(hex): {r, g, b}, or null when the pattern fails
hexToRgb(hex) ==
    hexGroups(IF hex # <<>> /\ hex[1] = "#" THEN Tail(hex) ELSE hex)

\* the sidebar converts the string (mix, the swatch handlers)
sidebarHexToRgb ==
    /\ hexSidebar = None
    /\ hexSidebar' = Some(hexToRgb(hexIn))
    /\ ev' = Event("sidebarHexToRgb")
    /\ UNCHANGED <<hexIn, hexStage, hexBack, gradientOpts>>
    /\ UNCHANGED mixVars
    /\ UNCHANGED cmykVars
    /\ UNCHANGED stageVars
    /\ UNCHANGED shellVars

\* the stage converts the string (toRgba and mixColor inside applyGradient)
stageHexToRgbCall ==
    /\ hexStage = None
    /\ hexStage' = Some(stageHexToRgb(hexIn))
    /\ ev' = Event("stageHexToRgb")
    /\ UNCHANGED <<hexIn, hexSidebar, hexBack, gradientOpts>>
    /\ UNCHANGED mixVars
    /\ UNCHANGED cmykVars
    /\ UNCHANGED stageVars
    /\ UNCHANGED shellVars

\* rgbToHex with the padStart(2, "0") left out
rgbToHex_noPad(c) ==
    <<"#">> \o toString16(c.r) \o toString16(c.g) \o toString16(c.b)

\* the sidebar's rgbToHex(r, g, b): "#" and each channel as two hex digits
rgbToHex(c) ==
    <<"#">> \o padStart2(toString16(c.r)) \o padStart2(toString16(c.g))
           \o padStart2(toString16(c.b))

\* rgbToHex applied to what hexToRgb returned (as mix does with its channels)
sidebarRgbToHex ==
    /\ hexSidebar # None
    /\ hexSidebar[1] # None
    /\ hexBack = None
    /\ hexBack' = Some(rgbToHex(hexSidebar[1][1]))
    /\ ev' = Event("sidebarRgbToHex")
    /\ UNCHANGED <<hexIn, hexSidebar, hexStage, gradientOpts>>
    /\ UNCHANGED mixVars
    /\ UNCHANGED cmykVars
    /\ UNCHANGED stageVars
    /\ UNCHANGED shellVars

\* Math.round(a + (b - a) * t) for each channel, then rgbToHex; a null channel
\* record makes the property access throw, and there is no result
mixOf(a, b, tPct) ==
    IF a = None \/ b = None THEN None
    ELSE Some(rgbToHex([r |-> RoundDiv(100 * a[1].r + (b[1].r - a[1].r) * tPct, 100),
                        g |-> RoundDiv(100 * a[1].g + (b[1].g - a[1].g) * tPct, 100),
                        b |-> RoundDiv(100 * a[1].b + (b[1].b - a[1].b) * tPct, 100)]))

\* mix with the fraction counted from the second colour
mix_fromSecond(aHex, bHex, tPct) == mixOf(hexToRgb(bHex), hexToRgb(aHex), tPct)

\* the sidebar's mix(aHex, bHex, t) with t = tPct / 100
mix(aHex, bHex, tPct) == mixOf(hexToRgb(aHex), hexToRgb(bHex), tPct)

\* the sidebar mixes the two colours (gradient previews)
sidebarMix ==
    /\ mixSidebar = None
    /\ mixSidebar' = Some(mix(mixArgs.a, mixArgs.b, mixArgs.t))
    /\ ev' = Event("sidebarMix")
    /\ UNCHANGED <<mixArgs, mixStage, gradientOpts>>
    /\ UNCHANGED hexVars
    /\ UNCHANGED cmykVars
    /\ UNCHANGED stageVars
    /\ UNCHANGED shellVars

\* the stage mixes the two colours (inside applyGradient)
stageMixColor ==
    /\ mixStage = None
    /\ mixStage' = Some(mixColor(mixArgs.a, mixArgs.b, mixArgs.t))
    /\ ev' = Event("stageMixColor")
    /\ UNCHANGED <<mixArgs, mixSidebar, gradientOpts>>
    /\ UNCHANGED hexVars
    /\ UNCHANGED cmykVars
    /\ UNCHANGED stageVars
    /\ UNCHANGED shellVars

(***************************************************************************)
(* Inputs of the gradient panel                                            *)
(***************************************************************************)
Hex_ff0000 == <<"#", "f", "f", "0", "0", "0", "0">>

Hex_0000ff == <<"#", "0", "0", "0", "0", "f", "f">>

Str_starburst == <<"s", "t", "a", "r", "b", "u", "r", "s", "t">>

Str_radail == <<"r", "a", "d", "a", "i", "l">>

\* the type strings the options may carry: the panel's labels, their
\* lower-case forms, an upper-case form, the alias, unknown names, the empty string
Label_Linear == <<"L", "i", "n", "e", "a", "r">>

Label_RADIAL == <<"R", "A", "D", "I", "A", "L">>

Label_Conic == <<"C", "o", "n", "i", "c">>

Label_Diamond == <<"D", "i", "a", "m", "o", "n", "d">>

Label_Reflected == <<"R", "e", "f", "l", "e", "c", "t", "e", "d">>

Label_MultiPoint == <<"M", "u", "l", "t", "i", "-", "P", "o", "i", "n", "t">>

GradTypes ==
    {Str_linear, Label_Linear, Str_radial, Label_RADIAL, Label_Conic,
     Label_Diamond, Label_Reflected, Label_MultiPoint, Str_multi,
     Str_starburst, Str_radail, <<>>}

GradMids == {None, Some(0), Some(25), Some(75), Some(100)}

GradOrigins ==
    {None, Some([x |-> 0, y |-> 50]), Some([x |-> 50, y |-> 100]),
     Some([x |-> 100, y |-> 0])}

\* the remaining options, varied together: all left out, all supplied, and
\* two mixed settings
GradRests ==
    {[angle |-> None, opacity |-> None, aspectRatio |-> None,
      reverse |-> FALSE, applyTo |-> None],
     [angle |-> Some(90), opacity |-> Some(97), aspectRatio |-> Some(200),
      reverse |-> TRUE, applyTo |-> Some("both")],
     [angle |-> Some(90), opacity |-> None, aspectRatio |-> None,
      reverse |-> FALSE, applyTo |-> Some("stroke")],
     [angle |-> None, opacity |-> Some(97), aspectRatio |-> Some(200),
      reverse |-> TRUE, applyTo |-> Some("fill")]}

GradOptions ==
    {[type |-> t, c1 |-> Hex_ff0000, c2 |-> Hex_0000ff, mid |-> m,
      angle |-> r.angle, opacity |-> r.opacity, origin |-> o,
      aspectRatio |-> r.aspectRatio, reverse |-> r.reverse,
      applyTo |-> r.applyTo] :
         t \in GradTypes, m \in GradMids, o \in GradOrigins, r \in GradRests}

\* what the editor holds before the gradient panel is touched
DefaultGradient ==
    [type |-> Str_linear, c1 |-> Hex_ff0000, c2 |-> Hex_0000ff, mid |-> None,
     angle |-> None, opacity |-> None, origin |-> None, aspectRatio |-> None,
     reverse |-> FALSE, applyTo |-> None]

\* the swatches converted: a channel's round trip depends on that channel and
\* on the largest channel only, so every (channel, largest) pair is taken, in
\* each position
Swatch(v, mx, pos) ==
    IF pos = 1 THEN <<v, mx, mx>>
    ELSE IF pos = 2 THEN <<mx, v, mx>>
    ELSE <<mx, mx, v>>

(***************************************************************************)
(* Editor page and colour panel (page.tsx, LeftSidebar)                    *)
(***************************************************************************)
\* showColorPicker, showGradientPanel, showShapeMenu, showTemplatesPanel,
\* showTextPanel, showLayersPanel, showUploadsPanel, showBrushPanel
PanelIds == {"color", "gradient", "shapes", "templates", "text", "layers",
             "uploads", "brush"}

\* the rail buttons of kind "tool", which reach onSelectTool
RailTools == {"move", "crop"}

\* ids that ShapeItem.mapLabel hands to onShapeSelect
ShapeIds == {"line", "square"}

\* ids the templates panel hands to onTemplateSelect: String(item.id) of its
\* 28 items
TemplateIds == {"1", "2", "3"}

Hex_3a3a3a == <<"#", "3", "a", "3", "a", "3", "a">>

Hex_1b3e82 == <<"#", "1", "b", "3", "e", "8", "2">>

\* swatches of the two rows of the colour panel
Swatches == {Hex_3a3a3a, Hex_1b3e82}

\* positions a CMYK slider and an RGB slider are moved to
CmykSliderValues == {0}

RgbSliderValues == {0}

\* the sliders that are moved
CmykChannels == {"c", "k"}

RgbChannels == {"r"}

AsTuple(c) == <<c.r, c.g, c.b>>

AsRecord(t) == [r |-> t[1], g |-> t[2], b |-> t[3]]

\* currentHex = rgbToHex(currentRgb), currentRgb = useRGB ? rgb : cmykToRgb(cmyk)
currentHexes(u, rgbS, cmykS) ==
    IF u THEN {rgbToHex(rgbS)}
    ELSE {rgbToHex(AsRecord(t)) : t \in cmykToRgb(cmykS)}

\* currentHex of the render that follows a handler: the same value when the
\* state it is computed from is the same
renderHex(u, rgbS, cmykS) ==
    IF u = useRGB /\ (IF u THEN rgbS = rgbState ELSE cmykS = cmykState)
    THEN {currentHex}
    ELSE currentHexes(u, rgbS, cmykS)

\* the colour the page has been told last once the effects of the render ran:
\* the effect on [showColorPicker, currentHex] calls onColorChange(currentHex)
\* when one of the two changed and the panel is open; direct is what the
\* handler itself passed to onColorChange
reported(direct, open, hex) ==
    IF open /\ (~panels["color"] \/ hex # currentHex) THEN Some(hex) ELSE direct

\* the page's onColorChange(hex) for the last reported colour:
\* setCurrentColor(hex), stageRef.current.setFillColor(hex), and the stage's
\* effect on [currentColor]
onColorChange(rep) ==
    IF rep = None
    THEN UNCHANGED <<currentColor, fillColour, brushColor, objects>>
    ELSE /\ currentColor' = rep[1]
         /\ fillColour' = rep[1]
         /\ brushColor' = IF isDrawingMode THEN Some(rep[1]) ELSE brushColor
         /\ objects' = [i \in DOMAIN objects |->
                           IF objects[i].id \in active
                           THEN [objects[i] EXCEPT !.fill = Flat(rep[1])]
                           ELSE objects[i]]

\* setSelectedTool(id) and the stage's effect on [selectedTool]
setSelectedTool(id) ==
    IF id = tool
    THEN UNCHANGED <<tool, isDrawingMode, brushColor>>
    ELSE /\ tool' = id
         /\ isDrawingMode' = (id = "brush")
         /\ brushColor' = IF id = "brush" THEN Some(fillColour) ELSE brushColor

\* what a handler of the page or the colour panel never touches
pageFrame ==
    /\ UNCHANGED <<textMode, croppingFlag, cropRect, cropStart, textDrag, loads,
                   objectUrls, gradientOpts>>
    /\ UNCHANGED colorVars
    /\ UNCHANGED welcomeVars

\* onSelectTool(id): the tool, and every panel closed
onSelectTool(id) ==
    /\ ev' = Event("onSelectTool")
    /\ setSelectedTool(id)
    /\ panels' = [p \in PanelIds |-> FALSE]
    /\ UNCHANGED <<objects, active, fillColour, currentColor, useRGB, cmykState,
                   rgbState, currentHex>>
    /\ pageFrame

\* a toggle that leaves the brush panel as it is
toggled_brushKept(p) ==
    [q \in PanelIds |-> IF q = p THEN ~panels[p]
                        ELSE IF q = "brush" THEN panels[q] ELSE FALSE]

\* the panels after onToggle<p>: p flipped, the seven others set to false
toggled(p) == [q \in PanelIds |-> IF q = p THEN ~panels[p] ELSE FALSE]

\* handleClick on a rail button of kind "panel": onToggleColor, onToggleGradient,
\* onToggleShapes, onToggleTemplates, onToggleText, onToggleLayers,
\* onToggleUploads, and onToggleBrush, which selects the brush tool as well;
\* the render that follows runs the colour panel's effect
onToggle(p) ==
    /\ ev' = Event("onToggle")
    /\ panels' = toggled(p)
    /\ IF p = "brush"
       THEN /\ setSelectedTool("brush")
            /\ UNCHANGED <<currentColor, fillColour, objects>>
       ELSE /\ onColorChange(reported(None, toggled(p)["color"], currentHex))
            /\ UNCHANGED <<tool, isDrawingMode>>
    /\ UNCHANGED <<active, useRGB, cmykState, rgbState, currentHex>>
    /\ pageFrame

\* onShapeSelect(shapeId), from the open shape menu
onShapeSelect(shapeId) ==
    /\ panels["shapes"]
    /\ ev' = Event("onShapeSelect")
    /\ setSelectedTool(shapeId)
    /\ panels' = [panels EXCEPT !["shapes"] = FALSE]
    /\ UNCHANGED <<objects, active, fillColour, currentColor, useRGB, cmykState,
                   rgbState, currentHex>>
    /\ pageFrame

\* insertTemplate(id): the group of "tpl-1" / "1" (its title takes
\* fillColourRef.current) or of "tpl-2" / "2" (its circle takes it)
templateGroup(id, tplId) ==
    [id |-> id, type |-> "group", left |-> 80, top |-> 80,
     template |-> IF tplId \in {"tpl-1", "1"} THEN 1 ELSE 2,
     accent |-> Flat(fillColour), fill |-> NoPaint, stroke |-> NoPaint,
     scale |-> 100, excludeFromExport |-> FALSE, evented |-> TRUE]

\* onTemplateSelect(tplId), from the open templates panel: insertTemplate adds
\* the group of a known id and makes it the selection, and does nothing for
\* any other id; the panel closes
onTemplateSelect(tplId) ==
    /\ panels["templates"]
    /\ ev' = Event("onTemplateSelect")
    /\ IF tplId \in {"tpl-1", "1", "tpl-2", "2"}
       THEN /\ objects' = Append(objects, templateGroup(FreshId(objects, <<>>), tplId))
            /\ active' = {FreshId(objects, <<>>)}
       ELSE UNCHANGED <<objects, active>>
    /\ panels' = [panels EXCEPT !["templates"] = FALSE]
    /\ UNCHANGED <<tool, isDrawingMode, brushColor, fillColour, currentColor,
                   useRGB, cmykState, rgbState, currentHex>>
    /\ pageFrame

\* the state a colour-panel handler leaves, and the render after it
colorPanelStep(direct, u, rgbS, cmykS, hex) ==
    /\ useRGB' = u
    /\ rgbState' = rgbS
    /\ cmykState' = cmykS
    /\ currentHex' = hex
    /\ onColorChange(reported(direct, panels["color"], hex))
    /\ UNCHANGED <<panels, tool, isDrawingMode, active>>
    /\ pageFrame

\* the CMYK / RGB switch of the open colour panel: setUseRGB((v) => !v)
toggleUseRGB ==
    /\ panels["color"]
    /\ ev' = Event("toggleUseRGB")
    /\ \E hex \in renderHex(~useRGB, rgbState, cmykState) :
           colorPanelStep(None, ~useRGB, rgbState, cmykState, hex)

\* a CMYK slider moved to v: setCMYK, onColorChange(rgbToHex(cmykToRgb(next)))
cmykSlider(ch, v) ==
    /\ panels["color"]
    /\ ~useRGB
    /\ cmykState[ch] # v
    /\ ev' = Event("cmykSlider")
    /\ \E hex \in renderHex(FALSE, rgbState, [cmykState EXCEPT ![ch] = v]) :
           colorPanelStep(Some(hex), FALSE, rgbState,
                          [cmykState EXCEPT ![ch] = v], hex)

\* an RGB slider moved to v: setRGB, onColorChange(rgbToHex(next))
rgbSlider(ch, v) ==
    /\ panels["color"]
    /\ useRGB
    /\ rgbState[ch] # v
    /\ ev' = Event("rgbSlider")
    /\ colorPanelStep(Some(rgbToHex([rgbState EXCEPT ![ch] = v])), TRUE,
                      [rgbState EXCEPT ![ch] = v], cmykState,
                      rgbToHex([rgbState EXCEPT ![ch] = v]))

\* Swatch onPick(hex): rgbVal = hexToRgb(hex); setRGB(rgbVal) or
\* setCMYK(rgbToCmyk(rgbVal)) by mode; onColorChange(hex)
pickSwatch(hex) ==
    /\ panels["color"]
    /\ ev' = EventWith("pickSwatch", hex)
    /\ IF useRGB
       THEN colorPanelStep(Some(hex), TRUE, hexToRgb(hex)[1], cmykState,
                           rgbToHex(hexToRgb(hex)[1]))
       ELSE \E q \in rgbToCmyk(AsTuple(hexToRgb(hex)[1])) :
            \E h2 \in renderHex(FALSE, rgbState, q) :
                colorPanelStep(Some(hex), FALSE, rgbState, q, h2)

PageInit ==
    /\ panels = [p \in PanelIds |-> FALSE]
    /\ currentColor = Hex_111827
    /\ useRGB = FALSE
    /\ cmykState = [c |-> 30, m |-> 30, y |-> 30, k |-> 30]
    /\ rgbState = [r |-> 255, g |-> 0, b |-> 128]
    /\ currentHex \in currentHexes(useRGB, rgbState, cmykState)

(***************************************************************************)
(* Welcome page: the mini editor (EditorPreview and its CanvasStage)       *)
(***************************************************************************)
ElKinds == {"rect", "circle", "text"}

\* the elements the mini editor holds at most
MaxEls == 3

\* where a drag drops the element: snapped pointer positions
DropPoints == {[x |-> 64, y |-> 64]}

\* the three elements of the initial state; locked is absent, which is falsy
InitialEls ==
    <<[id |-> 1, kind |-> "rect", x |-> 64, y |-> 64, locked |-> FALSE],
      [id |-> 2, kind |-> "circle", x |-> 320, y |-> 96, locked |-> FALSE],
      [id |-> 3, kind |-> "text", x |-> 88, y |-> 88, locked |-> FALSE]>>

\* the element onAddText / onAddRect / onAddCircle appends
addedEl(id, kind) ==
    [id |-> id, kind |-> kind, locked |-> FALSE,
     x |-> IF kind = "text" THEN 40 ELSE IF kind = "rect" THEN 120 ELSE 240,
     y |-> IF kind = "text" THEN 40 ELSE IF kind = "rect" THEN 60 ELSE 160]

\* els.findIndex((p) => p.id === id), 0 for -1
findIndex(id) ==
    IF \E i \in DOMAIN els : els[i].id = id
    THEN CHOOSE i \in DOMAIN els : els[i].id = id
    ELSE 0

\* uid(): an id no element and no drag in progress carries
uid == FreshId(els, IF dragging = None THEN <<>> ELSE <<[id |-> dragging[1]]>>)

welcomeFrame ==
    /\ UNCHANGED ev
    /\ UNCHANGED stageVars
    /\ UNCHANGED gradientOpts
    /\ UNCHANGED colorVars
    /\ UNCHANGED pageVars

\* CanvasStage.onMouseDown(e, el): a locked element returns at once; any other
\* becomes the selection and the dragged element. stopPropagation keeps the
\* press from the background in both cases
onMouseDown(i) ==
    /\ IF els[i].locked
       THEN UNCHANGED <<selectedId, dragging>>
       ELSE /\ selectedId' = Some(els[i].id)
            /\ dragging' = Some(els[i].id)
    /\ UNCHANGED els
    /\ welcomeFrame

\* a press on the background: setSelectedId(null)
onBackgroundMouseDown ==
    /\ selectedId' = None
    /\ UNCHANGED <<els, dragging>>
    /\ welcomeFrame

\* onDoubleClick of a text element: setSelectedId(el.id), locked or not
onDoubleClick(i) ==
    /\ els[i].kind = "text"
    /\ selectedId' = Some(els[i].id)
    /\ UNCHANGED <<els, dragging>>
    /\ welcomeFrame

\* onMouseMove: updateEl(dragging.id, {x, y}) while a drag is in progress
onMouseMove(pt) ==
    /\ els' = IF dragging = None THEN els
              ELSE [i \in DOMAIN els |->
                       IF els[i].id = dragging[1]
                       THEN [els[i] EXCEPT !.x = pt.x, !.y = pt.y]
                       ELSE els[i]]
    /\ UNCHANGED <<selectedId, dragging>>
    /\ welcomeFrame

\* onMouseUp and onMouseLeave: setDragging(null)
onMouseUp ==
    /\ dragging' = None
    /\ UNCHANGED <<els, selectedId>>
    /\ welcomeFrame

\* onAddText, onAddRect, onAddCircle: the new element is appended and selected
onAdd(kind) ==
    /\ els' = Append(els, addedEl(uid, kind))
    /\ selectedId' = Some(uid)
    /\ UNCHANGED dragging
    /\ welcomeFrame

\* the Delete button, and Delete / Backspace on the keyboard: the selected
\* element is removed and the selection cleared
onDelete ==
    /\ IF selectedId = None
       THEN UNCHANGED <<els, selectedId>>
       ELSE /\ els' = SelectSeq(els, LAMBDA p : p.id # selectedId[1])
            /\ selectedId' = None
    /\ UNCHANGED dragging
    /\ welcomeFrame

\* toggleLock: updateEl(selected.id, {locked: !selected.locked})
toggleLock ==
    /\ els' = IF selectedId = None THEN els
              ELSE [i \in DOMAIN els |->
                       IF els[i].id = selectedId[1]
                       THEN [els[i] EXCEPT !.locked = ~els[i].locked]
                       ELSE els[i]]
    /\ UNCHANGED <<selectedId, dragging>>
    /\ welcomeFrame

\* els with the elements at i and j exchanged
swapped(i, j) ==
    [n \in DOMAIN els |-> IF n = i THEN els[j] ELSE IF n = j THEN els[i] ELSE els[n]]

\* bringForward: the selected element moves one place towards the end
bringForward ==
    /\ els' = IF selectedId = None THEN els
              ELSE IF findIndex(selectedId[1]) \in {0, Len(els)} THEN els
              ELSE swapped(findIndex(selectedId[1]), findIndex(selectedId[1]) + 1)
    /\ UNCHANGED <<selectedId, dragging>>
    /\ welcomeFrame

\* sendBackward: the selected element moves one place towards the front
sendBackward ==
    /\ els' = IF selectedId = None THEN els
              ELSE IF findIndex(selectedId[1]) <= 1 THEN els
              ELSE swapped(findIndex(selectedId[1]), findIndex(selectedId[1]) - 1)
    /\ UNCHANGED <<selectedId, dragging>>
    /\ welcomeFrame

WelcomeInit ==
    /\ els = InitialEls
    /\ selectedId = None
    /\ dragging = None

ShellInit ==
    /\ PageInit
    /\ WelcomeInit

(***************************************************************************)
(* Specifications                                                          *)
(***************************************************************************)
\* the stage right after the mount effect, before any input
StageInit ==
    /\ tool = "move"
    /\ textMode = "point"
    /\ objects = MountedObjects(None)
    /\ active = {objects[2].id}
    /\ isDrawingMode = FALSE
    /\ croppingFlag = FALSE
    /\ cropRect = None
    /\ cropStart = [x |-> 0, y |-> 0]
    /\ textDrag = None
    /\ loads = <<>>
    /\ objectUrls = 0
    /\ fillColour = Hex_111827
    /\ brushColor = None

MixInit ==
    /\ mixArgs = [a |-> Hex_111827, b |-> Hex_111827, t |-> 0]
    /\ mixSidebar = None
    /\ mixStage = None

HexInit ==
    /\ hexIn = Hex_111827
    /\ hexSidebar = None
    /\ hexStage = None
    /\ hexBack = None
    /\ MixInit

ColorInit ==
    /\ rgb = <<255, 0, 128>>
    /\ cmyk = None
    /\ rgbBack = None
    /\ HexInit

Init ==
    /\ ShellInit
    /\ StageInit
    /\ ColorInit
    /\ gradientOpts = DefaultGradient
    /\ ev = Event("mount")

Next ==
    \/ \E p \in Points : \E tgt \in Targets : handleMouseDown(p, tgt)
    \/ \E p \in Points : handleMouseMove(p)
    \/ \E p \in Points : handleMouseUp(p)
    \/ finalizeCrop
    \/ \E i \in DOMAIN loads : cropImageLoaded(i)
    \/ \E items \in Batches :
           Len(loads) + Len(items) <= MaxLoads /\ addImages(items)
    \/ \E i \in DOMAIN loads : \E size \in ImageSizes :
           (loads[i].live => Len(objects) < MaxObjects) /\ imageLoaded(i, size)
    \/ \E i \in DOMAIN loads : imageFailed(i)
    \/ \E t \in Tools : selectTool(t)
    \/ \E mode \in TextModes : textLayoutChange(mode)

Spec == Init /\ [][Next]_vars

\* an image that was inserted earlier with addImages, taller than wide
insertedImage(id) ==
    [id |-> id, type |-> "image", left |-> 80, top |-> 80, width |-> 100,
     height |-> 300, scale |-> 100, fill |-> NoPaint, stroke |-> NoPaint,
     excludeFromExport |-> FALSE, evented |-> TRUE]

\* the gradient compiler: any panel setting, applied to what is selected
\* (the default rectangle, an inserted image, or both)
InitGradient ==
    /\ ShellInit
    /\ tool = "move"
    /\ textMode = "point"
    /\ objects = MountedObjects(None) \o <<insertedImage(3)>>
    /\ active \in {{2}, {2, 3}}
    /\ isDrawingMode = FALSE
    /\ croppingFlag = FALSE
    /\ cropRect = None
    /\ cropStart = [x |-> 0, y |-> 0]
    /\ textDrag = None
    /\ loads = <<>>
    /\ objectUrls = 0
    /\ fillColour = Hex_111827
    /\ brushColor = None
    /\ ColorInit
    /\ gradientOpts \in GradOptions
    /\ ev = Event("mount")

NextGradient == applyGradient

SpecGradient == InitGradient /\ [][NextGradient]_vars

\* the paint calls of the imperative handle, on any selection (none, one
\* object, both), with the brush tool on or off
PaintTools == {"move", "brush"}

PaintHexes == {Hex_ff0000, Hex_0000ff}

PaintOptions ==
    {o \in GradOptions :
        /\ o.type \in {Str_linear, Label_RADIAL}
        /\ o.mid = None /\ o.origin = None}

InitPaint ==
    /\ ShellInit
    /\ tool = "move"
    /\ textMode = "point"
    /\ objects = MountedObjects(None) \o <<insertedImage(3)>>
    /\ active \in SUBSET {2, 3}
    /\ isDrawingMode = FALSE
    /\ croppingFlag = FALSE
    /\ cropRect = None
    /\ cropStart = [x |-> 0, y |-> 0]
    /\ textDrag = None
    /\ loads = <<>>
    /\ objectUrls = 0
    /\ fillColour = Hex_111827
    /\ brushColor = None
    /\ ColorInit
    /\ gradientOpts \in PaintOptions
    /\ ev = Event("mount")

NextPaint ==
    \/ \E hex \in PaintHexes : setFillColor(hex)
    \/ applyGradient
    \/ \E t \in PaintTools : selectTool(t)

SpecPaint == InitPaint /\ [][NextPaint]_vars

\* the textMode prop: "point", "area", or left out by the parent
TextModeProps == {"undefined", "point", "area"}

\* where text gestures start and end
TextPoints ==
    {<<50, 50>>, <<52, 51>>, <<54, 50>>, <<60, 50>>, <<50, 55>>, <<150, 120>>}

\* text gestures: the text tool is selected, under any textMode prop
InitText ==
    /\ ShellInit
    /\ tool = "text"
    /\ textMode \in TextModeProps
    /\ objects = MountedObjects(None)
    /\ active = {objects[2].id}
    /\ isDrawingMode = FALSE
    /\ croppingFlag = FALSE
    /\ cropRect = None
    /\ cropStart = [x |-> 0, y |-> 0]
    /\ textDrag = None
    /\ loads = <<>>
    /\ objectUrls = 0
    /\ fillColour = Hex_111827
    /\ brushColor = None
    /\ ColorInit
    /\ gradientOpts = DefaultGradient
    /\ ev = Event("mount")

NextText ==
    \/ \E p \in TextPoints : \E tgt \in Targets : handleMouseDown(p, tgt)
    \/ \E p \in TextPoints : handleMouseUp(p)

SpecText == InitText /\ [][NextText]_vars

\* bounds of the image batches
MaxImageBatch == 2

MaxImageLoads == 2

MaxImageObjects == 4

ImageBatches == UNION {[1..n -> ItemKinds] : n \in 1..MaxImageBatch}

\* image insertion: batches of files and URLs, added at the default place or
\* dropped at a point, their loads settling in any order; a change of the
\* text mode remounts the canvas under the loads in flight
NextImages ==
    \/ \E items \in ImageBatches :
           Len(loads) + Len(items) <= MaxImageLoads /\ addImages(items)
    \/ \E p \in Points : \E items \in ImageBatches :
           Len(loads) + Len(items) <= MaxImageLoads /\ addImagesAt(p, items)
    \/ \E i \in DOMAIN loads : \E size \in ImageSizes :
           (loads[i].live => Len(objects) < MaxImageObjects) /\ imageLoaded(i, size)
    \/ \E i \in DOMAIN loads : imageFailed(i)
    \/ \E mode \in TextModes : textLayoutChange(mode)

SpecImages == Init /\ [][NextImages]_vars

\* the colour panel: any swatch, picked in CMYK mode and rendered back
InitColor ==
    /\ ShellInit
    /\ StageInit
    /\ \E v \in 0..255 : \E mx \in 0..255 : \E pos \in 1..3 :
           rgb = Swatch(v, mx, pos)
    /\ cmyk = None
    /\ rgbBack = None
    /\ HexInit
    /\ gradientOpts = DefaultGradient
    /\ ev = Event("mount")

NextColor ==
    \/ pickSwatchCmyk
    \/ renderCurrentRgb

SpecColor == InitColor /\ [][NextColor]_vars

\* hexToRgb on colour strings: three or six digits, lower and upper case,
\* with and without the leading '#'
HexDigitSample == {"0", "9", "a", "F"}

ShortHexes == {<<x, y, z>> : x \in HexDigitSample, y \in HexDigitSample, z \in HexDigitSample}

LongHexes == {<<h[1], h[1], h[2], h[2], h[3], h[3]>> : h \in ShortHexes}

HexInputs ==
    {pre \o h : pre \in {<<>>, <<"#">>}, h \in ShortHexes \cup LongHexes}

InitHex ==
    /\ ShellInit
    /\ StageInit
    /\ rgb = <<255, 0, 128>>
    /\ cmyk = None
    /\ rgbBack = None
    /\ hexIn \in HexInputs
    /\ hexSidebar = None
    /\ hexStage = None
    /\ hexBack = None
    /\ MixInit
    /\ gradientOpts = DefaultGradient
    /\ ev = Event("mount")

NextHex ==
    \/ sidebarHexToRgb
    \/ stageHexToRgbCall

SpecHex == InitHex /\ [][NextHex]_vars

\* hexToRgb on strings that are not colours: too short, too long by one, with
\* a letter past f, empty; with and without the leading '#'. The same string
\* is the gradient panel's c1 or c2.
BadChars == {"f", "0", "z"}

IsHexBody(b) == Len(b) \in {3, 6} /\ \A i \in DOMAIN b : IsHexChar(b[i])

BadBodies ==
    {b \in UNION {[1..n -> BadChars] : n \in 0..4} : ~IsHexBody(b)}
      \cup {<<"f", "f", "0", "0", "z", "z">>, <<"z", "z", "z", "z", "z", "z">>,
            <<"f", "f", "0", "0", "0", "0", "0">>}

MalformedHexes == {pre \o b : pre \in {<<>>, <<"#">>}, b \in BadBodies}

InitBadHex ==
    /\ ShellInit
    /\ StageInit
    /\ rgb = <<255, 0, 128>>
    /\ cmyk = None
    /\ rgbBack = None
    /\ hexIn \in MalformedHexes
    /\ hexSidebar = None
    /\ hexStage = None
    /\ hexBack = None
    /\ MixInit
    /\ gradientOpts \in {[DefaultGradient EXCEPT !.c1 = hexIn],
                         [DefaultGradient EXCEPT !.c2 = hexIn]}
    /\ ev = Event("mount")

NextBadHex ==
    \/ sidebarHexToRgb
    \/ stageHexToRgbCall
    \/ applyGradient

SpecBadHex == InitBadHex /\ [][NextBadHex]_vars

\* the hex round trip: every byte value in each of the three positions, next
\* to a few settings of the other two, in lower case with '#'; and a colour
\* in upper case, without '#', and in three digits
HexPairs == {<<a, b>> : a \in Range(HexChars), b \in Range(HexChars)}

RestPairs == {<<"0", "0">>, <<"f", "f">>, <<"0", "a">>}

LowerHexes ==
    {<<"#">> \o p \o q \o q : p \in HexPairs, q \in RestPairs}
      \cup {<<"#">> \o q \o p \o q : p \in HexPairs, q \in RestPairs}
      \cup {<<"#">> \o q \o q \o p : p \in HexPairs, q \in RestPairs}

OtherHexes ==
    {<<"#", "F", "F", "0", "0", "A", "A">>, <<"f", "f", "0", "0", "a", "a">>,
     <<"#", "f", "0", "a">>}

InitHexRound ==
    /\ ShellInit
    /\ StageInit
    /\ rgb = <<255, 0, 128>>
    /\ cmyk = None
    /\ rgbBack = None
    /\ hexIn \in LowerHexes \cup OtherHexes
    /\ hexSidebar = None
    /\ hexStage = None
    /\ hexBack = None
    /\ MixInit
    /\ gradientOpts = DefaultGradient
    /\ ev = Event("mount")

NextHexRound ==
    \/ sidebarHexToRgb
    \/ sidebarRgbToHex

SpecHexRound == InitHexRound /\ [][NextHexRound]_vars

\* mix and mixColor on six-digit colours, in lower case, in upper case and
\* without '#', at the fractions 0, 1/4, 1/2, 3/4 and 1 (where the exact
\* quotient with ties upward is what the double arithmetic delivers)
Hex_8B0000 == <<"#", "8", "B", "0", "0", "0", "0">>

Hex_1d4ed8_bare == <<"1", "d", "4", "e", "d", "8">>

MixColors ==
    {Hex_ff0000, Hex_0000ff, Hex_1d4ed8, Hex_60a5fa, Hex_8B0000, Hex_1d4ed8_bare}

MixFractions == {0, 25, 50, 75, 100}

InitMix ==
    /\ ShellInit
    /\ StageInit
    /\ rgb = <<255, 0, 128>>
    /\ cmyk = None
    /\ rgbBack = None
    /\ hexIn = Hex_111827
    /\ hexSidebar = None
    /\ hexStage = None
    /\ hexBack = None
    /\ mixArgs \in [a : MixColors, b : MixColors, t : MixFractions]
    /\ mixSidebar = None
    /\ mixStage = None
    /\ gradientOpts = DefaultGradient
    /\ ev = Event("mount")

NextMix ==
    \/ sidebarMix
    \/ stageMixColor

SpecMix == InitMix /\ [][NextMix]_vars

\* objects on the canvas of the editor page at most
MaxPageObjects == 4

\* the editor page after the mount effect, with the default rectangle selected
\* or the selection cleared by a press on the empty canvas
InitPage ==
    /\ ShellInit
    /\ ColorInit
    /\ tool = "move"
    /\ textMode = "point"
    /\ objects = MountedObjects(None)
    /\ active \in {{}, {objects[2].id}}
    /\ isDrawingMode = FALSE
    /\ croppingFlag = FALSE
    /\ cropRect = None
    /\ cropStart = [x |-> 0, y |-> 0]
    /\ textDrag = None
    /\ loads = <<>>
    /\ objectUrls = 0
    /\ fillColour = Hex_111827
    /\ brushColor = None
    /\ gradientOpts = DefaultGradient
    /\ ev = Event("mount")

\* the rail, the shape menu and the templates panel
NextPanels ==
    \/ \E id \in RailTools : onSelectTool(id)
    \/ \E p \in PanelIds : onToggle(p)
    \/ \E shapeId \in ShapeIds : onShapeSelect(shapeId)
    \/ \E tplId \in TemplateIds :
           (tplId \in {"1", "2"} => Len(objects) < MaxPageObjects)
           /\ onTemplateSelect(tplId)

SpecPanels == InitPage /\ [][NextPanels]_vars

\* the rail and the colour panel
NextColorPanel ==
    \/ \E id \in RailTools : onSelectTool(id)
    \/ \E p \in PanelIds : onToggle(p)
    \/ toggleUseRGB
    \/ \E ch \in CmykChannels : \E v \in CmykSliderValues : cmykSlider(ch, v)
    \/ \E ch \in RgbChannels : \E v \in RgbSliderValues : rgbSlider(ch, v)
    \/ \E hex \in Swatches : pickSwatch(hex)

SpecColorPanel == InitPage /\ [][NextColorPanel]_vars

\* the mini editor of the welcome page as it is first rendered
InitWelcome ==
    /\ ShellInit
    /\ StageInit
    /\ ColorInit
    /\ gradientOpts = DefaultGradient
    /\ ev = Event("mount")

NextWelcome ==
    \/ \E i \in DOMAIN els : onMouseDown(i)
    \/ onBackgroundMouseDown
    \/ \E i \in DOMAIN els : onDoubleClick(i)
    \/ \E pt \in DropPoints : onMouseMove(pt)
    \/ onMouseUp
    \/ \E kind \in ElKinds : Len(els) < MaxEls /\ onAdd(kind)
    \/ onDelete
    \/ toggleLock
    \/ bringForward
    \/ sendBackward

SpecWelcome == InitWelcome /\ [][NextWelcome]_vars


(***************************************************************************)
(* Properties                                                              *)
(***************************************************************************)
\* the gradients the last applyGradient call assigned: per applyTo, the fill
\* and / or the stroke of every selected object
PaintedGradients ==
    LET applyTo == Coalesce(gradientOpts.applyTo, "fill")
        sel == {i \in DOMAIN objects : objects[i].id \in active}
    IN  IF ev.op # "applyGradient" THEN {}
        ELSE {[obj |-> objects[i], grad |-> objects[i].fill] :
                  i \in {j \in sel : applyTo \in {"fill", "both"}}}
             \cup {[obj |-> objects[i], grad |-> objects[i].stroke] :
                      i \in {j \in sel : applyTo \in {"stroke", "both"}}}

StopsOrderedInUnitRange(stops) ==
    /\ \A i \in DOMAIN stops : stops[i].offset >= 0 /\ stops[i].offset <= 100
    /\ \A i \in 1..(Len(stops) - 1) : stops[i].offset <= stops[i + 1].offset

\* C1: for every family and every mid in [0,100], the stops applyGradient
\* assigns are ordered by offset, and every offset lies in [0,1].
C1_StopsOrdered ==
    \A pg \in PaintedGradients : StopsOrderedInUnitRange(pg.grad.colorStops)

RoundTripWithin(tol) ==
    rgbBack # None =>
        \A i \in 1..3 : Abs(rgbBack[1][i] - rgb[i]) <= tol

\* C6 (as stated): for every triple that is not near pure black (here: K
\* below 50%), cmykToRgb(rgbToCmyk(r,g,b)) differs from (r,g,b) by at most 1
\* in each channel.
C6_RoundTripWithinOne ==
    (cmyk # None /\ cmyk[1].k < 50) => RoundTripWithin(1)

\* C6 (amended): for every triple, cmykToRgb(rgbToCmyk(r,g,b)) differs from
\* (r,g,b) by at most 2 in each channel.
C6_RoundTripWithinTwo == RoundTripWithin(2)

\* a bright swatch whose round trip is off by exactly 2
C6_Witness ==
    /\ rgb = <<228, 254, 254>>
    /\ rgbBack = Some(<<230, 255, 255>>)

\* C2: every pointer-up that occurs while a crop session is Dragging (active,
\* overlay present) finalizes it: right afterwards the session is Idle
\* (not active, overlay handle cleared) and the overlay is off the surface.
C2_PointerUpFinalizesCrop ==
    [][(ev'.op = "mouseUp" /\ croppingFlag /\ cropRect # None)
         => (/\ ~croppingFlag'
             /\ cropRect' = None
             /\ cropRect[1].id \notin Ids(objects'))]_vars

\* C3: after every pointer-up no pending text start record exists.
C3_TextDragDestroyedByPointerUp ==
    ev.op = "mouseUp" => textDrag = None

\* C4: an image load started by addImages that resolves after the user has
\* switched tools is discarded: it adds no object and leaves the selection.
C4_LateLoadDiscarded ==
    [][(ev.op = "selectTool" /\ ev'.op = "imageLoaded")
         => (objects' = objects /\ active' = active)]_vars

RadialOrConicSpellings == {Str_radial, Label_RADIAL, Str_conic, Label_Conic}

\* C5: for a radial or conic gradient on a target of size (width, height) the
\* center is (width*ox, height*oy) for every supplied origin and
\* (width/2, height/2) without one, the inner radius is 0 and the outer
\* radius is max(width, height)/2.
C5_RadialCenter ==
    \A pg \in PaintedGradients :
        gradientOpts.type \in RadialOrConicSpellings =>
            LET b == getBoundingRect(pg.obj)
                ox == IF gradientOpts.origin = None THEN 50
                      ELSE gradientOpts.origin[1].x
                oy == IF gradientOpts.origin = None THEN 50
                      ELSE gradientOpts.origin[1].y
                c == pg.grad.coords
            IN  /\ pg.grad.type = "radial"
                /\ c.x1 = b.width * ox /\ c.y1 = b.height * oy
                /\ c.x2 = c.x1 /\ c.y2 = c.y1
                /\ c.r1 = 0
                /\ c.r2 = Max(b.width, b.height) * 50

\* spellings of a family name and the lower-case name each stands for
FamilySpellings ==
    {<<Str_linear, Str_linear>>, <<Label_Linear, Str_linear>>,
     <<Str_radial, Str_radial>>, <<Label_RADIAL, Str_radial>>,
     <<Label_Conic, Str_conic>>, <<Label_Diamond, Str_diamond>>,
     <<Label_Reflected, Str_reflected>>, <<Label_MultiPoint, Str_multipoint>>,
     <<Str_multi, Str_multi>>}

\* what applyGradient would assign to the painted object for options o
CompiledFor(pg, o) ==
    LET b == getBoundingRect(pg.obj)
    IN  compileGradient(o, b.width, b.height)

C8_CropNormalization ==
    [][/\ ev'.op = "mouseMove" =>
            LET r == cropRect'[1]
                q == ev'.arg[1]
            IN  /\ r.left = cropStart.x /\ r.top = cropStart.y
                /\ r.width = q[1] - cropStart.x
                /\ r.height = q[2] - cropStart.y
       /\ (ev'.op = "mouseUp" /\ croppingFlag /\ ~croppingFlag') =>
            LET r == cropRect[1]
                px == r.left
                py == r.top
                qx == r.left + r.width
                qy == r.top + r.height
                area == loads'[Len(loads')]
            IN  /\ area.kind = "crop"
                /\ area.left = Min(px, qx) /\ area.top = Min(py, qy)
                /\ area.width = Abs(qx - px) /\ area.height = Abs(qy - py)
                /\ area.width >= 0 /\ area.height >= 0]_vars

\* the drag (150,120) -> (50,50) was finalized with {50, 50, 100, 70}
C8_Witness ==
    /\ ev.op = "mouseUp"
    /\ cropStart = [x |-> 150, y |-> 120]
    /\ \E i \in DOMAIN loads :
           /\ loads[i].kind = "crop"
           /\ loads[i].left = 50 /\ loads[i].top = 50
           /\ loads[i].width = 100 /\ loads[i].height = 70

\* C9: when the rasterized image of a crop finalize has arrived, the only
\* exportable object on the surface is that one image, at the normalized
\* rectangle's origin, and it is the active selection.
C9_SurfaceAfterCrop ==
    (ev.op = "cropImageLoaded" /\ ev.arg[1].live) =>
        LET exportable == SelectSeq(objects, LAMBDA o : ~o.excludeFromExport)
        IN  /\ Len(exportable) = 1
            /\ exportable[1].type = "image"
            /\ exportable[1].left = ev.arg[1].left
            /\ exportable[1].top = ev.arg[1].top
            /\ active = {exportable[1].id}

\* C10: finalizeCrop called while no crop session is active changes nothing:
\* no object added or removed, selection unchanged, nothing rasterized, and
\* the crop state stays Idle.
C10_FinalizeIdleNoOp ==
    [][(ev'.op = "finalizeCrop" /\ ~croppingFlag)
         => (/\ objects' = objects
             /\ active' = active
             /\ loads' = loads
             /\ ~croppingFlag'
             /\ cropRect' = cropRect)]_vars

\* finalizeCrop has just run on an idle stage that still shows its objects
C10_Witness ==
    /\ ev.op = "finalizeCrop"
    /\ ~croppingFlag
    /\ \A i \in DOMAIN loads : loads[i].kind # "crop"
    /\ \E i \in DOMAIN objects : ~objects[i].excludeFromExport

\* a step that is the pointer-up ending a text-tool gesture
TextGestureEnds == ev'.op = "mouseUp" /\ tool = "text" /\ textDrag # None

\* the displacement of the gesture such a step ends
GestureDx == Abs(ev'.arg[1][1] - textDrag[1].startX)

GestureDy == Abs(ev'.arg[1][2] - textDrag[1].startY)

\* the object such a step appended
CreatedText == objects'[Len(objects')]

\* C11: on the pointer-up that ends a text-tool gesture with displacement
\* (dx, dy), forced mode "area" always creates an area text box, forced mode
\* "point" always a point text, and with no override an area text box is
\* created iff dx > 4 or dy > 4 and a point text otherwise.
C11_TextModeDecides ==
    [][TextGestureEnds =>
         /\ Len(objects') = Len(objects) + 1
         /\ CreatedText.type \in {"textbox", "i-text"}
         /\ textMode = "area" => CreatedText.type = "textbox"
         /\ textMode = "point" => CreatedText.type = "i-text"
         /\ textMode = "undefined" =>
                (CreatedText.type = "textbox" <=> (GestureDx > 4 \/ GestureDy > 4))]_vars

\* with no override, displacement (2,1) has just given a point text
C11_Witness ==
    /\ ev = EventWith("mouseUp", <<52, 51>>)
    /\ textMode = "undefined"
    /\ Len(objects) = 3
    /\ objects[3].type = "i-text"
    /\ objects[3].left = 50 /\ objects[3].top = 50

\* C12: an area text box has width = max(40, dx), height = max(24, dy) and
\* sits at (min(startX, endX), min(startY, endY)); a point text sits at the
\* gesture's start coordinates wherever the pointer was released.
C12_TextGeometry ==
    [][TextGestureEnds =>
         /\ Len(objects') = Len(objects) + 1
         /\ CreatedText.type = "textbox" =>
                /\ CreatedText.width = (IF GestureDx > 40 THEN GestureDx ELSE 40)
                /\ CreatedText.height = (IF GestureDy > 24 THEN GestureDy ELSE 24)
                /\ CreatedText.left = (IF textDrag[1].startX < ev'.arg[1][1]
                                       THEN textDrag[1].startX ELSE ev'.arg[1][1])
                /\ CreatedText.top = (IF textDrag[1].startY < ev'.arg[1][2]
                                      THEN textDrag[1].startY ELSE ev'.arg[1][2])
         /\ CreatedText.type = "i-text" =>
                /\ CreatedText.left = textDrag[1].startX
                /\ CreatedText.top = textDrag[1].startY]_vars

\* a drag from (150,120) back to (50,50) has just given a 100 x 70 text box
\* at (50,50)
C12_Witness ==
    /\ ev = EventWith("mouseUp", <<50, 50>>)
    /\ Len(objects) = 3
    /\ objects[3].type = "textbox"
    /\ objects[3].left = 50 /\ objects[3].top = 50
    /\ objects[3].width = 100 /\ objects[3].height = 70

\* C13: whatever the order in which the loads of a batch resolve, the image of
\* item index i is placed at (80 + 20*i, 80 + 20*i) by addImages and at
\* (x + 10*i, y + 10*i) by addImagesAt with drop point (x, y).
C13_PositionByIndex ==
    [][(ev'.op = "imageLoaded" /\ ev'.arg[1].live) =>
         /\ Len(objects') = Len(objects) + 1
         /\ objects'[Len(objects')].type = "image"
         /\ ev'.arg[1].kind = "image" =>
                /\ objects'[Len(objects')].left = 80 + 20 * ev'.arg[1].index
                /\ objects'[Len(objects')].top = 80 + 20 * ev'.arg[1].index
         /\ ev'.arg[1].kind = "imageAt" =>
                /\ objects'[Len(objects')].left
                       = ev'.arg[1].left + 10 * ev'.arg[1].index
                /\ objects'[Len(objects')].top
                       = ev'.arg[1].top + 10 * ev'.arg[1].index]_vars

\* the second item of an addImages batch arrived first, the first item after it
C13_Witness ==
    /\ ev.op = "imageLoaded"
    /\ ev.arg[1].kind = "image" /\ ev.arg[1].index = 0
    /\ Len(objects) = 4
    /\ objects[3].type = "image" /\ objects[3].left = 100 /\ objects[3].top = 100
    /\ objects[4].type = "image" /\ objects[4].left = 80 /\ objects[4].top = 80

\* C14: a load failure of one item of a batch adds no object and leaves the
\* sibling loads in flight, which insert their images as usual; and the
\* object URLs outstanding are at every moment exactly those of the File
\* items whose load has not settled yet (each is released when its load
\* settles, failed or not).
C14_FailureIsolatedUrlsReleased ==
    [][/\ objectUrls' = Cardinality({i \in DOMAIN loads' : loads'[i].revoke})
       /\ ev'.op = "imageFailed" =>
              /\ objects' = objects
              /\ active' = active
              /\ Len(loads') = Len(loads) - 1
              /\ \E i \in DOMAIN loads :
                     /\ loads[i] = ev'.arg[1]
                     /\ loads' = SubSeq(loads, 1, i - 1)
                                   \o SubSeq(loads, i + 1, Len(loads))]_vars

\* of a batch of two the first item failed and the second was inserted: its
\* image alone is on the canvas, at the place of index 1, and no URL is left
C14_Witness ==
    /\ ev.op = "imageLoaded"
    /\ ev.arg[1].kind = "image" /\ ev.arg[1].index = 1 /\ ev.arg[1].revoke
    /\ loads = <<>>
    /\ objectUrls = 0
    /\ Len(objects) = 3
    /\ objects[3].type = "image" /\ objects[3].left = 100 /\ objects[3].top = 100

\* C15: with no object selected, setFillColor(hex) and applyGradient(options)
\* leave every object as it was (fill and stroke included) and run to
\* completion; setFillColor still records the colour.
C15_NoSelectionNoPaint ==
    [][(active = {} /\ ev'.op \in {"setFillColor", "applyGradient"}) =>
          /\ objects' = objects
          /\ active' = {}
          /\ ev'.op = "setFillColor" => fillColour' = ev'.arg[1]]_vars

\* setFillColor ran with nothing selected: the colour is recorded and the
\* default rectangle and the image keep their paints
C15_Witness ==
    /\ active = {}
    /\ ev = EventWith("setFillColor", Hex_ff0000)
    /\ fillColour = Hex_ff0000
    /\ objects[2].fill = Flat(Hex_60a5fa)
    /\ objects[2].stroke = Flat(Hex_1d4ed8)
    /\ objects[3].fill = NoPaint

\* the gradient the options give for an object's own scaled extent
OwnGradient(obj) ==
    compileGradient(gradientOpts, (obj.width * obj.scale) \div 100,
                    (obj.height * obj.scale) \div 100)

\* C16: applyGradient gives every selected object a gradient computed from
\* that object's own bounding box: as its fill when applyTo is "fill" or left
\* out (stroke kept), as its stroke when "stroke" (fill kept), as both when
\* "both"; nothing else of a selected object changes, and an unselected
\* object keeps its fill, its stroke and everything else.
C16_GradientOnSelectionOnly ==
    [][ev'.op = "applyGradient" =>
          /\ Len(objects') = Len(objects)
          /\ active' = active
          /\ \A i \in DOMAIN objects :
                 IF objects[i].id \in active
                 THEN /\ objects'[i].fill =
                            IF gradientOpts.applyTo \in {None, Some("fill"), Some("both")}
                            THEN OwnGradient(objects[i]) ELSE objects[i].fill
                      /\ objects'[i].stroke =
                            IF gradientOpts.applyTo \in {Some("stroke"), Some("both")}
                            THEN OwnGradient(objects[i]) ELSE objects[i].stroke
                      /\ [objects'[i] EXCEPT !.fill = NoPaint, !.stroke = NoPaint]
                           = [objects[i] EXCEPT !.fill = NoPaint, !.stroke = NoPaint]
                 ELSE objects'[i] = objects[i]]_vars

\* a stroke-only gradient was applied to the selected rectangle after it had
\* been filled red: the stroke is a gradient spanning the rectangle's height,
\* its fill is still red, and the unselected image has no paint
C16_Witness ==
    /\ ev.op = "applyGradient"
    /\ active = {2}
    /\ gradientOpts.applyTo = Some("stroke")
    /\ gradientOpts.type = Str_linear
    /\ objects[2].stroke.kind = "gradient"
    /\ gradientOpts.angle = Some(90)
    /\ objects[2].stroke.coords.y2 = 120 * 100
    /\ objects[2].fill = Flat(Hex_ff0000)
    /\ objects[3].fill = NoPaint /\ objects[3].stroke = NoPaint

\* the options with the two colours exchanged and the reverse flag cleared
Exchanged(o) == [o EXCEPT !.reverse = FALSE, !.c1 = o.c2, !.c2 = o.c1]

MultiPointSpellings == {Label_MultiPoint, Str_multipoint, Str_multi}

\* C18: a multi-point gradient has exactly the four stops 0, 0.35, 0.7, 1 with
\* the colours c1, mix(c1, c2, 0.35), mix(c1, c2, 0.7), c2 (c1 red and c2 blue
\* here, exchanged under reverse), and options that differ only in mid give
\* the identical gradient.
C18_MultiPointFixedStops ==
    \A pg \in PaintedGradients :
        gradientOpts.type \in MultiPointSpellings =>
            /\ Len(pg.grad.colorStops) = 4
            /\ [i \in 1..4 |-> pg.grad.colorStops[i].offset] = <<0, 35, 70, 100>>
            /\ [i \in 1..4 |-> pg.grad.colorStops[i].color]
                 = IF gradientOpts.reverse
                   THEN <<<<0, 0, 255, Coalesce(gradientOpts.opacity, 100)>>,
                          <<89, 0, 166, Coalesce(gradientOpts.opacity, 100)>>,
                          <<179, 0, 77, Coalesce(gradientOpts.opacity, 100)>>,
                          <<255, 0, 0, Coalesce(gradientOpts.opacity, 100)>>>>
                   ELSE <<<<255, 0, 0, Coalesce(gradientOpts.opacity, 100)>>,
                          <<166, 0, 89, Coalesce(gradientOpts.opacity, 100)>>,
                          <<77, 0, 179, Coalesce(gradientOpts.opacity, 100)>>,
                          <<0, 0, 255, Coalesce(gradientOpts.opacity, 100)>>>>
            /\ \A m \in GradMids :
                   pg.grad = CompiledFor(pg, [gradientOpts EXCEPT !.mid = m])

\* a multi-point gradient was assigned with mid = 75, and its second stop
\* stands at 0.35 all the same
C18_Witness ==
    /\ gradientOpts.type = Label_MultiPoint
    /\ gradientOpts.mid = Some(75)
    /\ ~gradientOpts.reverse
    /\ \E pg \in PaintedGradients :
           /\ Len(pg.grad.colorStops) = 4
           /\ pg.grad.colorStops[2] = [offset |-> 35, color |-> <<166, 0, 89, 100>>]

\* the spellings of the linear type proper
LinearSpellings == {Str_linear, Label_Linear}

\* red mixed towards blue at tPct hundredths, as Math.round delivers it
RedToBlue(tPct) ==
    CASE tPct = 0 -> <<255, 0, 0>>
      [] tPct = 25 -> <<191, 0, 64>>
      [] tPct = 50 -> <<128, 0, 128>>
      [] tPct = 75 -> <<64, 0, 191>>
      [] tPct = 100 -> <<0, 0, 255>>

\* C19: a linear gradient has exactly the three stops 0, mid/100, 1 with the
\* colours rgba(c1, a), rgba(mix(c1, c2, mid/100), a), rgba(c2, a), where
\* a = opacity/100, mid defaults to 50 and opacity to 100 (c1 and c2 exchanged
\* under reverse); for #ff0000 and #0000ff at mid = 50 the offsets are
\* 0, 0.5, 1 and the middle colour has red and blue 127 or 128 and green 0.
C19_LinearThreeStops ==
    \A pg \in PaintedGradients :
        gradientOpts.type \in LinearSpellings =>
            LET midPct == IF gradientOpts.mid = None THEN 50 ELSE gradientOpts.mid[1]
                a == IF gradientOpts.opacity = None THEN 100 ELSE gradientOpts.opacity[1]
                stops == pg.grad.colorStops
            IN  /\ pg.grad.type = "linear"
                /\ Len(stops) = 3
                /\ [i \in 1..3 |-> stops[i].offset] = <<0, midPct, 100>>
                /\ [i \in 1..3 |-> stops[i].color[4]] = <<a, a, a>>
                /\ [i \in 1..3 |-> SubSeq(stops[i].color, 1, 3)]
                     = IF gradientOpts.reverse
                       THEN <<RedToBlue(100), RedToBlue(100 - midPct), RedToBlue(0)>>
                       ELSE <<RedToBlue(0), RedToBlue(midPct), RedToBlue(100)>>
                /\ midPct = 50 =>
                       /\ stops[2].offset = 50
                       /\ stops[2].color[1] \in {127, 128}
                       /\ stops[2].color[2] = 0
                       /\ stops[2].color[3] \in {127, 128}

\* the editor's default gradient (linear, red to blue, mid and opacity left
\* out) was assigned: the middle stop stands at 0.5 in rgba(128, 0, 128, 1)
C19_Witness ==
    /\ gradientOpts.type = Str_linear
    /\ gradientOpts.mid = None
    /\ gradientOpts.opacity = None
    /\ ~gradientOpts.reverse
    /\ \E pg \in PaintedGradients :
           /\ Len(pg.grad.colorStops) = 3
           /\ pg.grad.colorStops[1] = [offset |-> 0, color |-> <<255, 0, 0, 100>>]
           /\ pg.grad.colorStops[2] = [offset |-> 50, color |-> <<128, 0, 128, 100>>]
           /\ pg.grad.colorStops[3] = [offset |-> 100, color |-> <<0, 0, 255, 100>>]

\* the six-digit form "#xxyyzz" of a colour string of three or six digits
SixDigitForm(hex) ==
    <<"#">> \o expandShort(IF hex[1] = "#" THEN Tail(hex) ELSE hex)

\* C20: every hexToRgb accepts three-digit as well as six-digit hex, with or
\* without the leading '#': what the sidebar's and the stage's hexToRgb
\* return for "xyz" or "#xyz" is a colour, the one they return for "#xxyyzz".
C20_ShortHexAsLong ==
    /\ hexSidebar # None =>
           /\ hexSidebar[1] # None
           /\ hexSidebar[1] = hexToRgb(SixDigitForm(hexIn))
    /\ hexStage # None =>
           hexStage[1] = stageHexToRgb(SixDigitForm(hexIn))

\* the part that holds: the stage's hexToRgb reads a three-digit string as its
\* six-digit form, and the sidebar's reads every six-digit string, with or
\* without '#', as the stage's does
C20_StageExpandsSidebarSixOnly ==
    /\ hexStage # None =>
           hexStage[1] = stageHexToRgb(SixDigitForm(hexIn))
    /\ hexSidebar # None =>
           hexSidebar[1] = IF Len(SixDigitForm(hexIn)) - Len(hexIn) \in {0, 1}
                           THEN Some(stageHexToRgb(SixDigitForm(hexIn)))
                           ELSE None

\* both functions ran on "#F0a": the stage read it as #FF00aa, the sidebar
\* returned null
C20_Witness ==
    /\ hexIn = <<"#", "F", "0", "a">>
    /\ hexStage = Some([r |-> 255, g |-> 0, b |-> 170])
    /\ hexSidebar = Some(None)

\* the RGB triples a hexToRgb can return
RgbTriples == [r : 0..255, g : 0..255, b : 0..255]

\* the colours of the stops of the gradient that fills the default rectangle
FillStopColors ==
    IF objects[2].fill.kind = "gradient"
    THEN {objects[2].fill.colorStops[i].color :
              i \in DOMAIN objects[2].fill.colorStops}
    ELSE {}

\* C21: for a string that is no well-formed three- or six-digit hex colour
\* every hexToRgb signals failure and returns no RGB triple, and applyGradient
\* with such a string as c1 or c2 assigns no gradient whose stops carry
\* channel values in 0..255.
C21_MalformedHexFails ==
    /\ hexSidebar # None => hexSidebar[1] = None
    /\ hexStage # None => hexStage[1] \notin RgbTriples
    /\ ev.op = "applyGradient" =>
           \A c \in FillStopColors : \E i \in 1..3 : c[i] \notin 0..255

\* the part that holds: the sidebar's hexToRgb returns null for every such
\* string
C21_SidebarRejects ==
    hexSidebar # None => hexSidebar[1] = None

\* both functions ran on "#zzzzzz": the sidebar returned null, the stage
\* returned black
C21_Witness ==
    /\ hexIn = <<"#", "z", "z", "z", "z", "z", "z">>
    /\ hexSidebar = Some(None)
    /\ hexStage = Some([r |-> 0, g |-> 0, b |-> 0])

\* a well-formed six-digit lower-case hex string with the leading '#'
IsLowerHex6(h) ==
    /\ Len(h) = 7
    /\ h[1] = "#"
    /\ \A i \in 2..7 : h[i] \in Range(HexChars)

\* C22: rgbToHex(hexToRgb(h)) = h for every well-formed six-digit lower-case
\* hex string h with the leading '#'.
C22_HexRoundTrip ==
    (hexBack # None /\ IsLowerHex6(hexIn)) => hexBack[1] = hexIn

\* "#0a000a" went through hexToRgb and rgbToHex and came back as itself,
\* its leading zeros kept
C22_Witness ==
    /\ hexIn = <<"#", "0", "a", "0", "0", "0", "a">>
    /\ hexSidebar = Some(Some([r |-> 10, g |-> 0, b |-> 10]))
    /\ hexBack = Some(hexIn)

\* a six-digit colour written as rgbToHex writes it: lower case, with '#'
Written(h) == <<"#">> \o toLowerCase(IF h[1] = "#" THEN Tail(h) ELSE h)

\* what the claim fixes for the arguments at hand: the first colour at t = 0
\* and for equal colours, the second at t = 1, nothing otherwise
FixedPoints ==
    (IF mixArgs.t = 0 \/ mixArgs.a = mixArgs.b THEN {mixArgs.a} ELSE {})
      \cup (IF mixArgs.t = 100 THEN {mixArgs.b} ELSE {})

\* C23 as stated: for all valid six-digit hex A, B the strings mix(A, B, 0)
\* and A are equal, mix(A, B, 1) and B are equal, and mix(A, A, t) and A are
\* equal for every t; the same for the stage's mixColor.
C23_MixFixedPointsVerbatim ==
    \A h \in FixedPoints :
        /\ mixSidebar # None => mixSidebar[1] = Some(h)
        /\ mixStage # None => mixStage[1] = h

\* C23: for all valid six-digit hex A, B, mix(A, B, 0) is the colour A,
\* mix(A, B, 1) is the colour B and mix(A, A, t) is the colour A for every t,
\* without any drift in a channel, written in lower case with '#' (the string
\* A or B itself when that is how it is written); the same for mixColor.
C23_MixFixedPoints ==
    \A h \in FixedPoints :
        /\ mixSidebar # None => mixSidebar[1] = Some(Written(h))
        /\ mixStage # None => mixStage[1] = Written(h)

\* both functions mixed #1d4ed8 with #60a5fa at t = 1 and returned #60a5fa
C23_Witness ==
    /\ mixArgs = [a |-> Hex_1d4ed8, b |-> Hex_60a5fa, t |-> 100]
    /\ mixSidebar = Some(Some(Hex_60a5fa))
    /\ mixStage = Some(Hex_60a5fa)

\* the crop overlays on the surface: the dashed rectangles in the overlay's
\* paint that take no pointer events
OverlaysOnSurface ==
    {i \in DOMAIN objects :
        /\ objects[i].type = "rect"
        /\ objects[i].fill = FlatRgba(0, 0, 0, 20)
        /\ objects[i].stroke = Flat(Hex_c01919)
        /\ ~objects[i].evented}

\* C24: in every reachable state at most one crop overlay rectangle is on
\* the surface, whatever the sequence of pointer-down, pointer-move,
\* pointer-up, tool switches and finalizeCrop calls.
C24_AtMostOneOverlay ==
    Cardinality(OverlaysOnSurface) <= 1

\* C25: a change of the forced text mode (point <-> area) leaves the surface
\* unchanged: every object on it before the change is on it afterwards, with
\* the same properties.
C25_TextModeKeepsSurface ==
    [][(ev'.op = "textLayoutChange" /\ textMode' # textMode) =>
          \A i \in DOMAIN objects :
              \E j \in DOMAIN objects' : objects'[j] = objects[i]]_vars

\* a crop is in progress: the session flag is set and the overlay is held
CropInProgress == croppingFlag /\ cropRect # None

\* the step rasterizes the overlay's rectangle, normalized, takes the overlay
\* and every exportable object off the surface, starts the load of the image
\* for the rectangle's corner and leaves the session Idle
CropFinalized ==
    /\ ~croppingFlag'
    /\ cropRect' = None
    /\ objects' = SelectSeq(objects, LAMBDA o : o.excludeFromExport)
    /\ Len(loads') = Len(loads) + 1
    /\ SubSeq(loads', 1, Len(loads)) = loads
    /\ loads'[Len(loads')].kind = "crop"
    /\ loads'[Len(loads')].left
         = Min(cropRect[1].left, cropRect[1].left + cropRect[1].width)
    /\ loads'[Len(loads')].top
         = Min(cropRect[1].top, cropRect[1].top + cropRect[1].height)
    /\ loads'[Len(loads')].width = Abs(cropRect[1].width)
    /\ loads'[Len(loads')].height = Abs(cropRect[1].height)

\* C26: with a crop in progress, finalizeCrop() and the release of
\* the pointer in that state take the same steps: the same normalized
\* rectangle, the overlay and the same objects removed, the same image load,
\* the session Idle.
C26_FinalizeAsPointerUpVerbatim ==
    [][(CropInProgress /\ ev'.op \in {"mouseUp", "finalizeCrop"})
          => CropFinalized]_vars

\* the part that holds: with a crop in progress, finalizeCrop() takes the
\* steps that the release of the pointer takes while the crop tool is active
C26_FinalizeAsPointerUp ==
    [][(/\ CropInProgress
        /\ \/ ev'.op = "finalizeCrop"
           \/ ev'.op = "mouseUp" /\ tool = "crop")
          => CropFinalized]_vars

\* finalizeCrop ended a drag made from (150,120) back to (50,50): the bleed
\* guide alone is left and the image for {50, 50, 100, 70} is being loaded
C26_Witness ==
    /\ ev.op = "finalizeCrop"
    /\ cropStart = [x |-> 150, y |-> 120]
    /\ ~croppingFlag
    /\ cropRect = None
    /\ Len(objects) = 1
    /\ loads = <<Load("crop", 0, 50, 50, 100, 70, FALSE)>>

\* the fills of the selected objects, in canvas order
SelectedFills(objs) ==
    [i \in {j \in DOMAIN objs : objs[j].id \in active} |-> objs[i].fill]

\* C27: opening or closing the colour panel, without a slider moved or a
\* swatch picked, changes neither the editor's current fill colour nor the
\* fill of any selected object.
C27_PanelToggleKeepsColour ==
    [][(panels'["color"] # panels["color"]) =>
          /\ currentColor' = currentColor
          /\ fillColour' = fillColour
          /\ SelectedFills(objects') = SelectedFills(objects)]_vars

\* C28: after a swatch of colour h is picked in the colour panel, in RGB or
\* in CMYK mode, and the effects of the render have run, the colour reported
\* last through onColorChange is h, and h is the fill of the selected objects.
C28_SwatchReportedVerbatim ==
    [][(ev'.op = "pickSwatch") =>
          /\ currentColor' = ev'.arg[1]
          /\ fillColour' = ev'.arg[1]
          /\ \A i \in DOMAIN objects' :
                 objects'[i].id \in active' => objects'[i].fill = Flat(ev'.arg[1])]_vars

\* the part that holds: a swatch picked in RGB mode is reported as it is
C28_SwatchReportedInRgbMode ==
    [][(ev'.op = "pickSwatch" /\ useRGB) =>
          /\ currentColor' = ev'.arg[1]
          /\ fillColour' = ev'.arg[1]
          /\ \A i \in DOMAIN objects' :
                 objects'[i].id \in active' => objects'[i].fill = Flat(ev'.arg[1])]_vars

\* the side panels that are open
OpenPanels == {p \in PanelIds : panels[p]}

\* C29: in the editor page at most one of the eight side panels (color,
\* gradient, shapes, templates, text, layers, uploads, brush) is open in every
\* reachable state, whatever the sequence of tool selections, panel toggles,
\* shape selections and template selections.
C29_AtMostOnePanel ==
    Cardinality(OpenPanels) <= 1

\* the gradient panel was opened while the brush panel was open: the brush
\* tool is still selected and the gradient panel is the only open one
C29_Witness ==
    /\ ev.op = "onToggle"
    /\ tool = "brush"
    /\ OpenPanels = {"gradient"}

\* some handler of the mini editor makes the element with this id the selection
CanBeSelected(id) == ENABLED (NextWelcome /\ selectedId' = Some(id))

\* C30: in the mini editor of the welcome page locking is reversible: in
\* every reachable state every locked element (rect, circle or text) is the
\* selection or can be made the selection again by the user, and so can be
\* unlocked or deleted.
C30_LockedCanBeSelected ==
    \A i \in DOMAIN els :
        els[i].locked => (selectedId = Some(els[i].id) \/ CanBeSelected(els[i].id))

\* what the mini editor does instead: a locked rect or circle that is not the
\* selection stays on the stage, locked and unselected, whatever the user does
C30_LockedShapeStaysLocked ==
    [][\A i \in DOMAIN els :
          (els[i].locked /\ els[i].kind # "text" /\ selectedId # Some(els[i].id))
              => \E j \in DOMAIN els' :
                     /\ els'[j].id = els[i].id
                     /\ els'[j].locked
                     /\ selectedId' # Some(els[i].id)]_vars

\* a locked text element can be selected again, by a double click
C30_LockedTextCanBeSelected ==
    \A i \in DOMAIN els :
        (els[i].locked /\ els[i].kind = "text")
            => (selectedId = Some(els[i].id) \/ CanBeSelected(els[i].id))

====
